---- MODULE Spec2Model ----
(***************************************************************************)
(* A model of the prefl command-line reviewer: the context resolver        *)
(* (src/src/modules/contextResolver.ts), the heuristic scanner and the     *)
(* remote analysis with its fallback (src/src/modules/groq.ts), the diff   *)
(* git hands to them (src/src/modules/git.ts), the auto-fix engine and the *)
(* commit gate of runAnalyze (src/src/modules/autofix.ts) and the          *)
(* pre-commit hook.                                                        *)
(*                                                                         *)
(* Each subsystem has its own variables, its own initial condition and its *)
(* own specification; a specification leaves the other subsystems'         *)
(* variables at their idle values.                                         *)
(***************************************************************************)
EXTENDS Integers, Sequences, FiniteSets, TLC

VARIABLES
    \* ---- context resolver ----
    disk,        \* the files on disk: normalised path -> captured import tokens
    files,       \* the file list handed to pickContextFiles
    baseLimit,   \* review.context.baseLimit
    maxFiles,    \* review.context.importExpansionLimit
    ctxPc,       \* position in runAnalyze's context building
    out,         \* expandContextByImports: out
    seen,        \* expandContextByImports: seen
    queue,       \* expandContextByImports: queue
    enqueued,    \* history: every path ever put on the queue, in order
    resolveCall,   \* the arguments of a call of resolveImportPath: fromFile, rel
    resolveResult, \* whether the call returned, and what
    \* ---- heuristic scanner ----
    diff,        \* the diff text, as the list of its lines (diff.split("\n"))
    scanPc,      \* "idle", "ready" (a diff is given), "done" (heuristicScan returned)
    scanResults, \* the issues heuristicScan returned
    scanAttr,    \* history: for each added line, its index in diff and its line number
    scanRuns,    \* calls of heuristicScan made in this process
    scanPrev,    \* history: what the call before the latest returned
    lastIndex,   \* the lastIndex of the pattern objects of HEURISTIC_PATTERNS, by rule
    projectFiles, \* the files buildSyntheticDiff was given: path, readable, lines
    \* ---- remote analysis ----
    apiKey,        \* process.env.GROQ_API_KEY is set
    groqPc,        \* analyzeWithGroq: "idle", "ready", "awaiting" (fetch pending),
                   \* "returned", "threw"; generateFixDiff: "fixReady",
                   \* "fixAwaiting", "fixReturned", "fixThrew"
    groqError,     \* the error the call raised, NoError if none
    reply,         \* what the fetch produced
    requests,      \* number of fetch calls issued
    heuristicRuns, \* number of heuristicScan calls made by analyzeWithGroq
    groqResult,    \* the issues analyzeWithGroq returned
    \* ---- one safe auto-fix pattern applied to a text ----
    txName,        \* the entry of SAFE_AUTOFIX_PATTERNS applied
    txInput,       \* the text given to the first application
    txPrev,        \* the text given to the latest application
    txCode,        \* the text after the latest application
    txPasses,      \* applications so far
    \* ---- applyAutoFixes ----
    srcFiles,      \* the source files on disk: path -> text, or Missing
    backups,       \* the .prefl-backup files on disk: path -> text, or Missing
    fixIssues,     \* the issue list applyAutoFixes is called with
    fixOptions,    \* options: [dryRun, backup]
    fixCalls,      \* calls of applyAutoFixes made so far
    fixResults,    \* the AutoFixResult list the latest call returned
    srcBefore,     \* history: srcFiles when the latest call began
    writes,        \* history: the fs.writeFileSync calls of the latest call, in order
    fixThrew,      \* the latest call raised instead of returning
    fixApplied,    \* history: for each applyIssueFix call of the latest call, the
                   \* lower-cased problem and what was run
    runOptions,    \* runAnalyze: options.autoFix and options.dryRun
    runPc,         \* runAnalyze: "idle", "start", "prompting" or "done"
    runConfirm,    \* runAnalyze: the answer to the confirmation prompt
    \* ---- commit gating ----
    gateIssues,      \* the issues analyzeWithGroq returned to runAnalyze
    blockSeverities, \* review.blockSeverities of prefl.json
    showSeverities,  \* review.showSeverities of prefl.json
    exitCode,        \* process.exitCode, then the exit status of prefl analyze
    gatePc,          \* "start", "exited" (prefl analyze is over), "hooked"
    commit           \* what the pre-commit hook made of the commit

ctxVars == <<disk, files, baseLimit, maxFiles, ctxPc, out, seen, queue, enqueued,
             resolveCall, resolveResult>>
scanVars == <<diff, scanPc, scanResults, scanAttr, scanRuns, scanPrev, lastIndex,
              projectFiles>>
groqVars == <<apiKey, groqPc, groqError, reply, requests, heuristicRuns, groqResult>>

txVars == <<txName, txInput, txPrev, txCode, txPasses>>

fixVars == <<srcFiles, backups, fixIssues, fixOptions, fixCalls, fixResults, srcBefore,
             writes, fixThrew, fixApplied, runOptions, runPc, runConfirm>>

gateVars == <<gateIssues, blockSeverities, showSeverities, exitCode, gatePc, commit>>

vars == <<ctxVars, scanVars, groqVars, txVars, fixVars, gateVars>>

\* what each subsystem leaves alone
notCtx  == <<scanVars, groqVars, txVars, fixVars, gateVars>>
notScan == <<ctxVars, groqVars, txVars, fixVars, gateVars>>
notGroq == <<ctxVars, scanResults, scanAttr, scanPc, scanRuns, scanPrev, lastIndex,
            projectFiles,
            txVars, fixVars, gateVars>>
notTx   == <<ctxVars, scanVars, groqVars, fixVars, gateVars>>
notFix  == <<ctxVars, scanVars, groqVars, txVars, gateVars>>
notGate == <<ctxVars, scanVars, groqVars, txVars, fixVars>>

(***************************************************************************)
(* Bounds of the model.                                                    *)
(***************************************************************************)
MaxImports == 2     \* import statements on the whole disk
MaxSeed    == 2     \* length of the file list handed to pickContextFiles
MaxBudget  == 3     \* largest importExpansionLimit tried
MaxScanRuns == 2    \* calls of heuristicScan on one diff
MaxDiffLines == 4   \* lines of a diff handed to heuristicScan
MaxHunkLines == 4   \* lines of the hunk of a diff git produced
MaxFileLines == 3   \* lines of a file given to buildSyntheticDiff
MaxLineNo    == 16  \* largest number written in a hunk header
MaxRemoteIssues == 2 \* items in the array the remote analyzer answers with
MaxStrictLen  == 7  \* symbols of a text given to strict-equality
MaxConsoleLen == 6  \* symbols of a text given to remove-console
MaxTrimLen    == 5  \* symbols of a text given to trim-whitespace
MaxFixLen     == 1  \* symbols of the short source files given to applyAutoFixes
MaxIssues     == 2  \* issues in the list given to applyAutoFixes
MaxGateIssues == 2  \* issues the analysis returns to runAnalyze

(***************************************************************************)
(* Generic helpers.                                                        *)
(***************************************************************************)
Min(a, b) == IF a <= b THEN a ELSE b

\* All sequences over S of length at most n.
SeqsUpTo(S, n) == UNION { [1..k -> S] : k \in 0..n }

\* JavaScript's s.slice(0, n) for n >= 0.
Slice0(s, n) == SubSeq(s, 1, Min(Len(s), n))

\* The elements of a sequence.
Range(s) == { s[i] : i \in 1..Len(s) }

(***************************************************************************)
(* Paths.  A path is the sequence of its segments: "lib/index.ts" is       *)
(* <<"lib", "index.ts">> and "./a.ts" is <<".", "a.ts">>.  Paths are        *)
(* relative to the working directory, which is <<>>.                       *)
(***************************************************************************)
RECURSIVE NormalizeFrom(_, _)
NormalizeFrom(acc, segs) ==
    IF segs = <<>> THEN acc
    ELSE LET h == Head(segs) IN
         IF h = "." THEN NormalizeFrom(acc, Tail(segs))
         ELSE IF h = ".."
              THEN IF acc = <<>> \/ acc[Len(acc)] = ".."
                   THEN NormalizeFrom(Append(acc, ".."), Tail(segs))
                   ELSE NormalizeFrom(SubSeq(acc, 1, Len(acc) - 1), Tail(segs))
              ELSE NormalizeFrom(Append(acc, h), Tail(segs))

\* path.join(process.cwd(), p) followed by path.relative(process.cwd(), .)
Normalize(p) == NormalizeFrom(<<>>, p)

\* path.dirname of a normalised path
Dirname(p) == IF p = <<>> THEN <<>> ELSE SubSeq(p, 1, Len(p) - 1)

\* rel + ext: the suffix goes on the last segment of the token
WithSuffix(rel, ext) == [rel EXCEPT ![Len(rel)] = @ \o ext]

(***************************************************************************)
(* The disk.  FilePaths are the regular files, Dirs the directories.       *)
(* A file's content is represented by the import tokens the regex bank of  *)
(* parseRelativeImports captures from it, in capture order.                *)
(***************************************************************************)
FilePaths == { <<"a.ts">>, <<"b.ts">>, <<"c.ts">>, <<"lib", "index.ts">> }
Dirs      == { <<>>, <<"lib">> }

\* the import statements a disk may carry, as pairs <<file, token>>:
\* a.ts imports ./b, ./c, ./lib (a directory) or ./zz (nothing); b.ts ./a or
\* ./lib/index
ImportStatements ==
    { << <<"a.ts">>, <<".", "b">> >>, << <<"a.ts">>, <<".", "c">> >>,
      << <<"a.ts">>, <<".", "lib">> >>, << <<"a.ts">>, <<".", "zz">> >>,
      << <<"b.ts">>, <<".", "a">> >>, << <<"b.ts">>, <<".", "lib", "index">> >> }

\* spellings a caller may put in the file list
FileArgs == { <<"a.ts">>, <<".", "a.ts">>, <<"b.ts">>, <<"lib">> }

RECURSIVE SelectFor(_, _)
\* the tokens of the statements of file f, in order
SelectFor(stmts, f) ==
    IF stmts = <<>> THEN <<>>
    ELSE IF Head(stmts)[1] = f
         THEN <<Head(stmts)[2]>> \o SelectFor(Tail(stmts), f)
         ELSE SelectFor(Tail(stmts), f)

\* the disk on which the import statements stmts (pairs <<file, token>>) stand
DiskOf(stmts) == [f \in FilePaths |-> SelectFor(stmts, f)]

\* fs.existsSync(p): files and directories both exist
existsSync(d, p) == LET n == Normalize(p) IN n \in DOMAIN d \/ n \in Dirs

\* fs.readFileSync(p) succeeds: p names a regular file
CanRead(d, p) == Normalize(p) \in DOMAIN d

\* fs.readFileSync(p, "utf8") of a readable file
readFileSync(d, p) == d[Normalize(p)]

\* content.slice(0, 20000); the unit of length is one captured token
ContentLimit == 20000

(***************************************************************************)
(* contextResolver.ts                                                      *)
(***************************************************************************)
\* pickFrom without the try block: a file that cannot be read is pushed empty
pickFromAll(d, fs) ==
    [i \in 1..Len(fs) |->
        [path |-> fs[i],
         content |-> IF CanRead(d, fs[i])
                     THEN Slice0(readFileSync(d, fs[i]), ContentLimit) ELSE <<>>]]

RECURSIVE pickFrom(_, _)
pickFrom(d, fs) ==
    IF fs = <<>> THEN <<>>
    ELSE LET f == Head(fs) IN
         IF CanRead(d, f)
         THEN <<[path |-> f, content |-> Slice0(readFileSync(d, f), ContentLimit)]>>
              \o pickFrom(d, Tail(fs))
         ELSE pickFrom(d, Tail(fs))

pickContextFiles(d, fs, limit) == pickFrom(d, Slice0(fs, limit))

RECURSIVE Dedupe(_, _)
\* Array.from(new Set(found)): first occurrences, in order
Dedupe(acc, found) ==
    IF found = <<>> THEN acc
    ELSE IF Head(found) \in Range(acc)
         THEN Dedupe(acc, Tail(found))
         ELSE Dedupe(Append(acc, Head(found)), Tail(found))

parseRelativeImports(src) == Dedupe(<<>>, src)

extensions ==
    << "", ".ts", ".tsx", ".js", ".jsx", ".mjs", ".cjs", ".py", ".pyi", ".go",
       ".java", ".kt", ".kts", ".c", ".cpp", ".cc", ".cxx", ".h", ".hpp",
       ".php", ".rb", ".rs", ".swift", ".cs", ".vue", ".svelte", ".dart",
       ".scala", ".lua", ".r", ".R" >>

indexFiles ==
    << "index.ts", "index.tsx", "index.js", "index.jsx", "__init__.py", "mod.rs" >>

\* the candidate list of resolveImportPath, as normalised paths
candidates(fromFile, rel) ==
    LET baseDir == Dirname(Normalize(fromFile)) IN
    [i \in 1..(Len(extensions) + Len(indexFiles)) |->
        IF i <= Len(extensions)
        THEN Normalize(baseDir \o WithSuffix(rel, extensions[i]))
        ELSE Normalize(baseDir \o rel \o <<indexFiles[i - Len(extensions)]>>)]

NoPath == <<"<undefined>">>

RECURSIVE firstFileFrom(_, _, _)
firstFileFrom(d, cs, i) ==
    IF i > Len(extensions) + Len(indexFiles) THEN NoPath
    ELSE IF CanRead(d, cs[i]) THEN cs[i]
         ELSE firstFileFrom(d, cs, i + 1)

\* firstExisting with a test for a regular file in place of fs.existsSync
firstExistingFile(d, cs) == firstFileFrom(d, cs, 1)

RECURSIVE firstExistingFrom(_, _, _)
\* for (const c of candidates) from the i-th candidate on
firstExistingFrom(d, cs, i) ==
    IF i > Len(extensions) + Len(indexFiles) THEN NoPath
    ELSE IF existsSync(d, cs[i]) THEN cs[i]
         ELSE firstExistingFrom(d, cs, i + 1)

firstExisting(d, cs) == firstExistingFrom(d, cs, 1)

resolveImportPath(d, fromFile, rel) == firstExisting(d, candidates(fromFile, rel))

\* The for loop of expandContextByImports over the imports of one item.
\* st is [out, seen, queue, enq].
RECURSIVE forImports(_, _, _, _, _)
forImports(d, item, imports, limit, st) ==
    IF imports = <<>> THEN st
    ELSE LET resolved == resolveImportPath(d, item.path, Head(imports)) IN
         IF resolved = NoPath THEN forImports(d, item, Tail(imports), limit, st)
         ELSE IF resolved \in st.seen THEN forImports(d, item, Tail(imports), limit, st)
         ELSE IF ~CanRead(d, resolved) THEN forImports(d, item, Tail(imports), limit, st)
         ELSE LET entry == [path |-> resolved,
                            content |-> Slice0(readFileSync(d, resolved), ContentLimit)]
                  st2 == [out   |-> Append(st.out, entry),
                          queue |-> Append(st.queue, entry),
                          seen  |-> st.seen \cup {resolved},
                          enq   |-> Append(st.enq, resolved)]
              IN IF Len(st2.out) >= limit THEN st2
                 ELSE forImports(d, item, Tail(imports), limit, st2)

RECURSIVE whileQueue(_, _, _)
\* the while loop of expandContextByImports; st is [out, seen, queue, enq]
whileQueue(d, limit, st) ==
    IF Len(st.queue) > 0 /\ Len(st.out) < limit
    THEN LET item == Head(st.queue) IN
         whileQueue(d, limit,
                    forImports(d, item, parseRelativeImports(item.content), limit,
                               [st EXCEPT !.queue = Tail(@)]))
    ELSE st

\* expandContextByImports(seed, maxFiles)
expandContextByImports(d, seed, limit) ==
    whileQueue(d, limit,
               [out |-> seed, seen |-> { seed[i].path : i \in 1..Len(seed) },
                queue |-> seed, enq |-> [i \in 1..Len(seed) |-> seed[i].path]]).out

(***************************************************************************)
(* Context building in runAnalyze.                                         *)
(***************************************************************************)
NoCall == [fromFile |-> <<>>, rel |-> <<>>]

NotReturned == [returned |-> FALSE, path |-> NoPath]

CtxIdle ==
    /\ disk = [f \in FilePaths |-> <<>>]
    /\ files = <<>>
    /\ baseLimit = 1
    /\ maxFiles = 1
    /\ ctxPc = "idle"
    /\ out = <<>>
    /\ seen = {}
    /\ queue = <<>>
    /\ enqueued = <<>>
    /\ resolveCall = NoCall
    /\ resolveResult = NotReturned

CtxInit ==
    /\ \E stmts \in SeqsUpTo(ImportStatements, MaxImports) : disk = DiskOf(stmts)
    /\ files \in SeqsUpTo(FileArgs, MaxSeed)
    /\ baseLimit \in {1, MaxSeed}
    /\ Len(files) <= baseLimit + 1     \* one file beyond the limit shows the cut
    /\ maxFiles \in 1..MaxBudget
    /\ ctxPc = "pick"
    /\ out = <<>>
    /\ seen = {}
    /\ queue = <<>>
    /\ enqueued = <<>>
    /\ resolveCall = NoCall
    /\ resolveResult = NotReturned

\* ExpandBegin with "const out = []": the seed is not copied into out
ExpandBeginNoCopy ==
    /\ ctxPc = "pick"
    /\ LET seed == pickContextFiles(disk, files, baseLimit) IN
       /\ out' = <<>>
       /\ seen' = { seed[i].path : i \in 1..Len(seed) }
       /\ queue' = seed
       /\ enqueued' = [i \in 1..Len(seed) |-> seed[i].path]
    /\ ctxPc' = "loop"
    /\ UNCHANGED <<disk, files, baseLimit, maxFiles, resolveCall, resolveResult, notCtx>>

\* const baseContext = pickContextFiles(filtered, baseLimit); then the first
\* three statements of expandContextByImports
ExpandBegin ==
    /\ ctxPc = "pick"
    /\ LET seed == pickContextFiles(disk, files, baseLimit) IN
       /\ out' = seed
       /\ seen' = { seed[i].path : i \in 1..Len(seed) }
       /\ queue' = seed
       /\ enqueued' = [i \in 1..Len(seed) |-> seed[i].path]
    /\ ctxPc' = "loop"
    /\ UNCHANGED <<disk, files, baseLimit, maxFiles, resolveCall, resolveResult, notCtx>>

\* ExpandStep with queue.pop() in place of queue.shift()
ExpandStepFromBack ==
    /\ ctxPc = "loop"
    /\ Len(queue) > 0 /\ Len(out) < maxFiles
    /\ LET item == queue[Len(queue)]
           st == forImports(disk, item, parseRelativeImports(item.content), maxFiles,
                            [out |-> out, seen |-> seen,
                             queue |-> SubSeq(queue, 1, Len(queue) - 1),
                             enq |-> enqueued])
       IN /\ out' = st.out
          /\ seen' = st.seen
          /\ queue' = st.queue
          /\ enqueued' = st.enq
    /\ UNCHANGED <<disk, files, baseLimit, maxFiles, resolveCall, resolveResult, ctxPc, notCtx>>

\* one iteration of the while loop
ExpandStep ==
    /\ ctxPc = "loop"
    /\ Len(queue) > 0 /\ Len(out) < maxFiles
    /\ LET item == Head(queue)
           st == forImports(disk, item, parseRelativeImports(item.content), maxFiles,
                            [out |-> out, seen |-> seen, queue |-> Tail(queue),
                             enq |-> enqueued])
       IN /\ out' = st.out
          /\ seen' = st.seen
          /\ queue' = st.queue
          /\ enqueued' = st.enq
    /\ UNCHANGED <<disk, files, baseLimit, maxFiles, resolveCall, resolveResult, ctxPc, notCtx>>

\* the loop condition fails: return out
ExpandReturn ==
    /\ ctxPc = "loop"
    /\ ~(Len(queue) > 0 /\ Len(out) < maxFiles)
    /\ ctxPc' = "done"
    /\ UNCHANGED <<disk, files, baseLimit, maxFiles, resolveCall, resolveResult, out, seen, queue, enqueued, notCtx>>

CtxNext == ExpandBegin \/ ExpandStep \/ ExpandReturn

(***************************************************************************)
(* One call of resolveImportPath, on a disk that holds any of the files.   *)
(***************************************************************************)
\* the importing files and the tokens tried: a file by its stem, by its full
\* name, a directory, a file inside a directory, the parent directory, nothing
ResolveFromFiles == { <<"a.ts">>, <<".", "a.ts">>, <<"lib", "index.ts">> }

ResolveTokens ==
    { <<".", "b">>, <<".", "b.ts">>, <<".", "lib">>, <<".", "lib", "index">>,
      <<".", "index">>, <<"..", "a">>, <<".", "zz">> }

ResolveInit ==
    /\ \E S \in SUBSET FilePaths : disk = [f \in S |-> <<>>]
    /\ files = <<>>
    /\ baseLimit = 1
    /\ maxFiles = 1
    /\ ctxPc = "idle"
    /\ out = <<>>
    /\ seen = {}
    /\ queue = <<>>
    /\ enqueued = <<>>
    /\ resolveCall \in [fromFile : ResolveFromFiles, rel : ResolveTokens]
    /\ resolveResult = NotReturned

\* const resolved = resolveImportPath(item.path, imp)
ResolveImportPath ==
    /\ ~resolveResult.returned
    /\ resolveCall # NoCall
    /\ resolveResult' =
          [returned |-> TRUE,
           path |-> resolveImportPath(disk, resolveCall.fromFile, resolveCall.rel)]
    /\ UNCHANGED <<disk, files, baseLimit, maxFiles, ctxPc, out, seen, queue, enqueued,
                   resolveCall, notCtx>>

ResolveNext == ResolveImportPath

(***************************************************************************)
(* groq.ts: heuristicScan.  A line of the diff is the sequence of its      *)
(* symbols: single characters where the scanner looks at characters ("+",  *)
(* "-", " ", ","), and otherwise fragments no pattern of the scanner       *)
(* matches across ("@@", "b/", a run of digits, a path, a piece of code).  *)
(***************************************************************************)
StartsWith(line, prefix) ==
    Len(line) >= Len(prefix) /\ SubSeq(line, 1, Len(prefix)) = prefix

\* parseInt(digits, 10) of the digit runs of the model
DigitsValue == [ d \in { ToString(n) : n \in 0..MaxLineNo } |->
                 CHOOSE n \in 0..MaxLineNo : ToString(n) = d ]

\* line.match(/\+(\d+)/): the places of a "+" followed by a digit run
PlusDigitsAt(line) ==
    { i \in 1..(Len(line) - 1) : line[i] = "+" /\ line[i + 1] \in DOMAIN DigitsValue }

\* match[1] of the first match
FirstPlusDigits(line) ==
    line[(CHOOSE i \in PlusDigitsAt(line) : \A k \in PlusDigitsAt(line) : i <= k) + 1]

RECURSIVE TrimLeft(_)
TrimLeft(t) == IF t # <<>> /\ Head(t) = " " THEN TrimLeft(Tail(t)) ELSE t

RECURSIVE TrimRight(_)
TrimRight(t) ==
    IF t # <<>> /\ t[Len(t)] = " " THEN TrimRight(SubSeq(t, 1, Len(t) - 1)) ELSE t

\* String.prototype.trim
Trim(t) == TrimRight(TrimLeft(t))

FileHeaderPrefix == <<"+", "+", "+", " ", "b/">>

Includes(added, fragments) == \E i \in 1..Len(added) : added[i] \in fragments

\* HEURISTIC_PATTERNS with the includes() guards, on the fragments of the model:
\* the k-th rule of heuristicScan fires on the added text
RuleFires(k, added) ==
    CASE k = 1 -> Includes(added, {"JSON.parse(r).u"})
      [] k = 2 -> Includes(added, {"f().then("}) /\ ~Includes(added, {"catch("})
      [] k = 3 -> Includes(added, {"eval("})
      [] k = 4 -> Includes(added, {"password=\"p\"", "token='t'"})
      [] k = 5 -> Includes(added, {"innerHTML="})
                  /\ ~Includes(added, {"DOMPurify", "sanitize"})
      [] k = 6 -> Includes(added, {"<img src=\"\">"})
      [] k = 7 -> Includes(added, {"<a href=\"\">"})
      [] k = 8 -> Includes(added, {"addEventListener("})
      [] k = 9 -> Includes(added, {"setInterval("})
      [] k = 10 -> Includes(added, {"<img src=\"\">", "<img alt=\"x\">"})

RuleProblem ==
    << "Unsafe JSON.parse - accessing properties without validation",
       "Unhandled promise rejection - missing .catch()",
       "Security: eval() executes arbitrary code",
       "Security: Hardcoded secret detected",
       "XSS vulnerability: innerHTML without sanitization",
       "Empty img src causes 404 errors",
       "Empty href causes page reload",
       "Memory leak: addEventListener without cleanup",
       "Memory leak: setInterval without clearInterval",
       "Accessibility: Missing alt attribute" >>

RuleFix ==
    << "Validate parsed data before accessing properties",
       "Add .catch() handler or use try/catch",
       "Use JSON.parse() or safer alternatives",
       "Move to environment variables (.env)",
       "Use textContent or sanitize with DOMPurify",
       "Provide valid src or remove tag",
       "Use valid href or replace with button",
       "Remove listener in cleanup function",
       "Call clearInterval in cleanup",
       "Add alt text for screen readers" >>

RuleSeverity ==
    << "critical", "critical", "critical", "critical", "critical", "critical",
       "critical", "warning", "warning", "warning" >>

\* pattern.test(added) for a pattern with the g flag: the search starts at
\* lastIndex, which a match moves forward and a failure resets
regexTestGlobal(last, matched) ==
    IF last > 0 THEN [result |-> FALSE, lastIndex |-> 0]
    ELSE [result |-> matched, lastIndex |-> IF matched THEN 1 ELSE 0]

\* pattern.test(added) for the patterns of HEURISTIC_PATTERNS, none of which has
\* the g or y flag: lastIndex is neither read nor written
regexTest(last, matched) == [result |-> matched, lastIndex |-> last]

RECURSIVE rulesFrom(_, _, _, _, _)
\* the issues the rules k.. push for one added line, and the lastIndex values
\* the pattern objects are left with
rulesFrom(k, added, file, lineNo, last) ==
    IF k > Len(RuleProblem) THEN [issues |-> <<>>, lastIndex |-> last]
    ELSE LET t == regexTest(last[k], RuleFires(k, added))
             rest == rulesFrom(k + 1, added, file, lineNo,
                               [last EXCEPT ![k] = t.lastIndex])
         IN [issues |-> (IF t.result
                         THEN << [file |-> file, problem |-> RuleProblem[k],
                                  fix |-> RuleFix[k], severity |-> RuleSeverity[k],
                                  line |-> lineNo, snippet |-> Trim(added)] >>
                         ELSE <<>>) \o rest.issues,
             lastIndex |-> rest.lastIndex]

\* lineNumber++ on an added line
nextLineNumber(n) == n + 1

RECURSIVE scanFrom(_, _, _)
\* the for loop of heuristicScan from line i on;
\* st is [currentFile, lineNumber, results, attr, lastIndex]
scanFrom(lines, i, st) ==
    IF i > Len(lines) THEN st
    ELSE LET line == lines[i] IN
         IF StartsWith(line, FileHeaderPrefix)
         THEN scanFrom(lines, i + 1,
                       [st EXCEPT !.currentFile =
                                      Trim(SubSeq(line, Len(FileHeaderPrefix) + 1, Len(line))),
                                  !.lineNumber = 0])
         ELSE IF StartsWith(line, <<"@@">>)
         THEN scanFrom(lines, i + 1,
                       IF PlusDigitsAt(line) # {}
                       THEN [st EXCEPT !.lineNumber = DigitsValue[FirstPlusDigits(line)]]
                       ELSE st)
         ELSE IF StartsWith(line, <<"+">>) /\ ~StartsWith(line, <<"+", "+", "+">>)
         THEN LET n == nextLineNumber(st.lineNumber)
                  added == Tail(line)
                  pushed == rulesFrom(1, added, st.currentFile, n, st.lastIndex)
              IN scanFrom(lines, i + 1,
                          [st EXCEPT !.lineNumber = n,
                                     !.results = @ \o pushed.issues,
                                     !.attr = Append(@, [index |-> i, line |-> n,
                                                         file |-> st.currentFile]),
                                     !.lastIndex = pushed.lastIndex])
         ELSE scanFrom(lines, i + 1, st)

\* the pattern objects as the module creates them
FreshPatterns == [k \in 1..Len(RuleProblem) |-> 0]

\* heuristicScan in a process whose pattern objects have the lastIndex values last
heuristicScanWith(lines, last) ==
    scanFrom(lines, 1, [currentFile |-> <<>>, lineNumber |-> 0,
                        results |-> <<>>, attr |-> <<>>, lastIndex |-> last])

heuristicScan(lines) == heuristicScanWith(lines, FreshPatterns)

\* the lines of the diffs tried
HeaderLine  == <<"+", "+", "+", " ", "b/", "f.ts">>
Hunk10Line  == <<"@@", " ", "-", "1", ",", "3", " ", "+", "10", ",", "3", " ", "@@">>
Hunk1Line   == <<"@@", " ", "-", "0", ",", "0", " ", "+", "1", ",", "1", " ", "@@">>
AddedEval   == <<"+", "eval(">>
AddedPlain  == <<"+", "x">>
AddedTwo    == <<"+", "setInterval(", "eval(">>
ContextLine == <<" ", "x">>
RemovedLine == <<"-", "x">>

DiffLines ==
    { HeaderLine, Hunk10Line, Hunk1Line, AddedEval, AddedPlain, AddedTwo, ContextLine,
      RemovedLine }

ScanIdle ==
    /\ diff = <<>>
    /\ scanPc = "idle"
    /\ scanResults = <<>>
    /\ scanAttr = <<>>
    /\ scanRuns = 0
    /\ scanPrev = <<>>
    /\ lastIndex = FreshPatterns
    /\ projectFiles = <<>>

ScanInit ==
    /\ diff \in SeqsUpTo(DiffLines, MaxDiffLines)
    /\ scanPc = "ready"
    /\ scanResults = <<>>
    /\ scanAttr = <<>>
    /\ scanRuns = 0
    /\ scanPrev = <<>>
    /\ lastIndex = FreshPatterns
    /\ projectFiles = <<>>

(***************************************************************************)
(* git.ts: getDiffForFiles.  git diff --cached --unified=3 writes, for a   *)
(* changed file, the two file header lines and then hunks; a hunk is its   *)
(* header "@@ -a,b +c,d @@" and its body, where b counts the context and   *)
(* removed lines of the body and d its context and added lines, a count    *)
(* of 1 is left out, and at most three context lines lead and trail.       *)
(***************************************************************************)
OldHeaderLine == <<"-", "-", "-", " ", "a/", "f.ts">>

HunkBodyLines == {ContextLine, RemovedLine, AddedEval, AddedPlain}

\* the lines of body that are in the old (kind "-") or new (kind "+") file
SideCount(body, kind) ==
    Cardinality({ i \in 1..Len(body) : body[i] = ContextLine \/ Head(body[i]) = kind })

\* "a,b" of a hunk header
HunkRange(start, count) ==
    IF count = 1 THEN <<ToString(start)>>
    ELSE <<ToString(IF count = 0 THEN 0 ELSE start), ",", ToString(count)>>

HunkHeaderOf(body, newStart) ==
    <<"@@", " ", "-">> \o HunkRange(1, SideCount(body, "-"))
        \o <<" ", "+">> \o HunkRange(newStart, SideCount(body, "+")) \o <<" ", "@@">>

\* --unified=3: a change in the body, at most three context lines around it
IsHunkBody(body) ==
    /\ \E i \in 1..Len(body) : body[i] # ContextLine
    /\ \A i \in 1..Len(body) :
          (\A j \in 1..i : body[j] = ContextLine) => i <= 3
    /\ \A i \in 1..Len(body) :
          (\A j \in i..Len(body) : body[j] = ContextLine) => Len(body) - i + 1 <= 3

\* the diffs of one file with one hunk that begins at line 1 or 10 of the new file
UnifiedDiffs ==
    { <<OldHeaderLine, HeaderLine, HunkHeaderOf(body, newStart)>> \o body :
        body \in { b \in SeqsUpTo(HunkBodyLines, MaxHunkLines) : IsHunkBody(b) },
        newStart \in {1, 10} }

\* heuristicScan is handed what getDiffForFiles returned
UnifiedInit ==
    /\ diff \in UnifiedDiffs
    /\ scanPc = "ready"
    /\ scanResults = <<>>
    /\ scanAttr = <<>>
    /\ scanRuns = 0
    /\ scanPrev = <<>>
    /\ lastIndex = FreshPatterns
    /\ projectFiles = <<>>

(***************************************************************************)
(* autofix.ts: buildSyntheticDiff.  A file is its path, whether it can be  *)
(* read, and content.split("\n").                                          *)
(***************************************************************************)
PlainSource     == <<"x">>
EvalSource      == <<"eval(">>
IncrementSource == <<"+", "+", "i", ";", " ", "eval(">>       \* "++i; eval("
HunkLikeSource  == <<"@@", " ", "+", "10", " ", "eval(">>    \* "@@ +10 eval("
EmptySource     == <<>>

SourceLines == {PlainSource, EvalSource, IncrementSource, HunkLikeSource, EmptySource}

\* `diff --git a/${f} b/${f}`, `--- a/${f}`, `+++ b/${f}`
DiffGitLine(f)   == <<"diff --git ", "a/", f, " ", "b/", f>>
OldHeaderFor(f)  == <<"-", "-", "-", " ", "a/", f>>
NewHeaderFor(f)  == <<"+", "+", "+", " ", "b/", f>>

\* the lines one file adds to out; nothing when readFileSync throws
syntheticLinesOf(file) ==
    IF ~file.readable THEN <<>>
    ELSE <<DiffGitLine(file.path), OldHeaderFor(file.path), NewHeaderFor(file.path)>>
         \o [k \in 1..Len(file.content) |-> <<"+">> \o file.content[k]]

RECURSIVE syntheticFrom(_, _)
syntheticFrom(fs, i) ==
    IF i > Len(fs) THEN <<>> ELSE syntheticLinesOf(fs[i]) \o syntheticFrom(fs, i + 1)

\* buildSyntheticDiff(files), as heuristicScan's diff.split("\n") sees it: every
\* line written ends with "\n", so the split ends with an empty string
buildSyntheticDiff(fs) == syntheticFrom(fs, 1) \o << <<>> >>

\* f.ts with up to MaxFileLines lines, alone or beside a g.ts of one line or
\* a g.ts that cannot be read
ProjectFileLists ==
    LET F == { [path |-> "f.ts", readable |-> TRUE, content |-> c] :
                 c \in SeqsUpTo(SourceLines, MaxFileLines) \ {<<>>} }
        G == { [path |-> "g.ts", readable |-> TRUE, content |-> <<l>>] :
                 l \in {PlainSource, EvalSource} }
             \cup { [path |-> "g.ts", readable |-> FALSE, content |-> <<>>] }
    IN { <<f>> : f \in F } \cup { <<f, g>> : f \in F, g \in G }
         \cup { <<g, f>> : f \in F, g \in G }

\* heuristicScan is handed what buildSyntheticDiff returned
SyntheticInit ==
    /\ projectFiles \in ProjectFileLists
    /\ diff = buildSyntheticDiff(projectFiles)
    /\ scanPc = "ready"
    /\ scanResults = <<>>
    /\ scanAttr = <<>>
    /\ scanRuns = 0
    /\ scanPrev = <<>>
    /\ lastIndex = FreshPatterns

\* heuristicScan(diff, contextFiles), called once more on the same diff
HeuristicScan ==
    /\ scanPc \in {"ready", "done"}
    /\ scanRuns < MaxScanRuns
    /\ LET st == heuristicScanWith(diff, lastIndex) IN
       /\ scanResults' = st.results
       /\ scanAttr' = st.attr
       /\ lastIndex' = st.lastIndex
    /\ scanPrev' = scanResults
    /\ scanRuns' = scanRuns + 1
    /\ scanPc' = "done"
    /\ UNCHANGED <<diff, projectFiles, notScan>>

ScanNext == HeuristicScan

(***************************************************************************)
(* groq.ts: analyzeWithGroq, safeParseIssues, normalizeIssues.             *)
(***************************************************************************)
Undefined == "<undefined>"

\* the items of the JSON array in the remote analyzer's answer
RawVar == [file |-> "f.ts", problem |-> "Uses var instead of const", fix |-> "Use const",
           severity |-> Undefined, line |-> "3", snippet |-> "var x", fixedCode |-> "const x"]
RawSql == [file |-> "f.ts", problem |-> "SQL injection", fix |-> "Use placeholders",
           severity |-> "critical", line |-> Undefined, snippet |-> Undefined,
           fixedCode |-> Undefined]
RawNoFix == [file |-> "f.ts", problem |-> "Unclear naming", fix |-> Undefined,
             severity |-> "info", line |-> Undefined, snippet |-> Undefined,
             fixedCode |-> Undefined]
\* a null in the array
RawNull == [isNull |-> TRUE]

RawItems == { RawVar, RawSql, RawNoFix, RawNull }

\* String(v ?? "")
StringOrEmpty(v) == IF v = Undefined THEN "" ELSE v

\* the object normalizeIssues maps an item to
normalizeItem(it) ==
    [file |-> StringOrEmpty(it.file), problem |-> StringOrEmpty(it.problem),
     fix |-> StringOrEmpty(it.fix),
     severity |-> IF it.severity = Undefined THEN "warning" ELSE it.severity]

\* it.file of null raises a TypeError
normalizeThrows(arr) == \E i \in 1..Len(arr) : arr[i] = RawNull

Truthy(str) == str # ""

normalizeIssues(arr) ==
    SelectSeq([i \in 1..Len(arr) |-> normalizeItem(arr[i])],
              LAMBDA it : Truthy(it.file) /\ Truthy(it.problem) /\ Truthy(it.fix))

\* The message content of the answer: its form and, where it holds a JSON
\* array, the items.  "array": the text is a JSON array; "wrapped": prose
\* around one JSON array; "object": JSON that is no array and holds no
\* brackets; "prose": no JSON and no brackets.
Contents ==
    [form : {"array", "wrapped"}, items : SeqsUpTo(RawItems, MaxRemoteIssues)]
    \cup [form : {"object", "prose"}, items : {<<>>}]

\* JSON.parse(text) gives an array
ParsesAsArray(text) == text.form = "array"

\* text.match(/\[([\s\S]*?)\]/) finds a block and JSON.parse(match[0]) gives an array
BracketBlockIsArray(text) == text.form \in {"array", "wrapped"}

safeParseIssues(text) ==
    IF ParsesAsArray(text) /\ ~normalizeThrows(text.items)
    THEN normalizeIssues(text.items)
    ELSE IF BracketBlockIsArray(text) /\ ~normalizeThrows(text.items)
    THEN normalizeIssues(text.items)
    ELSE <<>>

\* what the awaited fetch can produce: a rejection, or a response with a
\* status and a body that is JSON with a message content, JSON without one,
\* JSON whose message content is no string, or no JSON at all
Replies ==
    { [kind |-> "rejects"] }
    \cup [kind : {"response"}, status : {200, 401, 429, 500, 503},
          body : {"content"}, content : Contents]
    \cup [kind : {"response"}, status : {200, 401, 429, 500, 503},
          body : {"nocontent", "notjson", "nonstring"}]

NoReply == [kind |-> "none"]

\* response.ok
ResponseOk(r) == r.status >= 200 /\ r.status <= 299

\* data?.choices?.[0]?.message?.content ?? "[]"
ContentOf(r) ==
    IF r.body = "content" THEN r.content ELSE [form |-> "array", items |-> <<>>]

\* the diffs analyzeWithGroq is called with
GroqDiffs ==
    { <<>>,
      <<HeaderLine, Hunk1Line, AddedPlain>>,
      <<HeaderLine, Hunk1Line, AddedEval>> }

\* the errors a call can raise
NoError         == "none"
MissingKeyError == "Missing GROQ_API_KEY in environment. Set it in .env"
ApiError        == "Groq API error"
FetchError      == "fetch failed"
BodyError       == "invalid body"

GroqIdle ==
    /\ apiKey = FALSE
    /\ groqPc = "idle"
    /\ groqError = NoError
    /\ reply = NoReply
    /\ requests = 0
    /\ heuristicRuns = 0
    /\ groqResult = <<>>

GroqInit ==
    /\ apiKey \in BOOLEAN
    /\ groqPc \in {"ready", "fixReady"}
    /\ groqError = NoError
    /\ reply = NoReply
    /\ requests = 0
    /\ heuristicRuns = 0
    /\ groqResult = <<>>
    /\ diff \in GroqDiffs
    /\ scanPc = "idle"
    /\ scanResults = <<>>
    /\ scanAttr = <<>>
    /\ scanRuns = 0
    /\ scanPrev = <<>>
    /\ lastIndex = FreshPatterns
    /\ projectFiles = <<>>

\* AnalyzeMissingKey with the local scan in place of the error
AnalyzeMissingKeyFallsBack ==
    /\ groqPc = "ready"
    /\ ~apiKey
    /\ groqResult' = heuristicScan(diff).results
    /\ heuristicRuns' = heuristicRuns + 1
    /\ groqPc' = "returned"
    /\ UNCHANGED <<apiKey, groqError, reply, requests, diff, notGroq>>

\* if (!apiKey) throw new Error("Missing GROQ_API_KEY ...")
AnalyzeMissingKey ==
    /\ groqPc = "ready"
    /\ ~apiKey
    /\ groqPc' = "threw"
    /\ groqError' = MissingKeyError
    /\ UNCHANGED <<apiKey, reply, requests, heuristicRuns, groqResult, diff, notGroq>>

\* the prompt is built and fetch is called
AnalyzeRequest ==
    /\ groqPc = "ready"
    /\ apiKey
    /\ requests' = requests + 1
    /\ groqPc' = "awaiting"
    /\ UNCHANGED <<apiKey, groqError, reply, heuristicRuns, groqResult, diff, notGroq>>

\* the catch block: return heuristicScan(diff, contextFiles)
Fallback ==
    /\ groqResult' = heuristicScan(diff).results
    /\ heuristicRuns' = heuristicRuns + 1
    /\ groqPc' = "returned"

\* the awaited fetch rejects
FetchRejects ==
    /\ groqPc = "awaiting"
    /\ reply' = [kind |-> "rejects"]
    /\ Fallback
    /\ UNCHANGED <<apiKey, groqError, requests, diff, notGroq>>

\* FetchResolves with "return issues": no fallback on an empty answer
FetchResolvesNoFallback ==
    /\ groqPc = "awaiting"
    /\ \E r \in Replies :
        /\ r.kind = "response"
        /\ reply' = r
        /\ IF ~ResponseOk(r) THEN Fallback
           ELSE IF r.body = "notjson" THEN Fallback
           ELSE IF r.body = "nonstring" THEN Fallback
           ELSE /\ groqResult' = safeParseIssues(ContentOf(r))
                /\ groqPc' = "returned"
                /\ UNCHANGED heuristicRuns
    /\ UNCHANGED <<apiKey, groqError, requests, diff, notGroq>>

\* the awaited fetch resolves with a response; the rest of the try block
FetchResolves ==
    /\ groqPc = "awaiting"
    /\ \E r \in Replies :
        /\ r.kind = "response"
        /\ reply' = r
        /\ IF ~ResponseOk(r) THEN Fallback                 \* throw new Error(errorMsg)
           ELSE IF r.body = "notjson" THEN Fallback         \* response.json() rejects
           ELSE IF r.body = "nonstring" THEN Fallback       \* text.match is not a function
           ELSE LET issues == safeParseIssues(ContentOf(r)) IN
                IF Len(issues) > 0
                THEN /\ groqResult' = issues
                     /\ groqPc' = "returned"
                     /\ UNCHANGED heuristicRuns
                ELSE /\ groqResult' = heuristicScan(diff).results
                     /\ heuristicRuns' = heuristicRuns + 1
                     /\ groqPc' = "returned"
    /\ UNCHANGED <<apiKey, groqError, requests, diff, notGroq>>

\* generateFixDiff: if (!apiKey) throw new Error("Missing GROQ_API_KEY ...")
GenerateFixMissingKey ==
    /\ groqPc = "fixReady"
    /\ ~apiKey
    /\ groqPc' = "fixThrew"
    /\ groqError' = MissingKeyError
    /\ UNCHANGED <<apiKey, reply, requests, heuristicRuns, groqResult, diff, notGroq>>

\* generateFixDiff: the prompt is built and fetch is called
GenerateFixRequest ==
    /\ groqPc = "fixReady"
    /\ apiKey
    /\ requests' = requests + 1
    /\ groqPc' = "fixAwaiting"
    /\ UNCHANGED <<apiKey, groqError, reply, heuristicRuns, groqResult, diff, notGroq>>

\* generateFixDiff: the awaited fetch rejects; the catch block rethrows
GenerateFixFetchRejects ==
    /\ groqPc = "fixAwaiting"
    /\ reply' = [kind |-> "rejects"]
    /\ groqPc' = "fixThrew"
    /\ groqError' = FetchError
    /\ UNCHANGED <<apiKey, requests, heuristicRuns, groqResult, diff, notGroq>>

\* generateFixDiff: the awaited fetch resolves; the rest of the try block,
\* whose catch block rethrows
GenerateFixFetchResolves ==
    /\ groqPc = "fixAwaiting"
    /\ \E r \in Replies :
        /\ r.kind = "response"
        /\ reply' = r
        /\ IF ~ResponseOk(r)
           THEN groqPc' = "fixThrew" /\ groqError' = ApiError   \* throw new Error(errorMsg)
           ELSE IF r.body \in {"notjson", "nonstring"}
           THEN groqPc' = "fixThrew" /\ groqError' = BodyError  \* response.json(), text.match
           ELSE groqPc' = "fixReturned" /\ UNCHANGED groqError  \* return sanitizeUnifiedDiff(patch)
    /\ UNCHANGED <<apiKey, requests, heuristicRuns, groqResult, diff, notGroq>>

GroqNext ==
    \/ AnalyzeMissingKey \/ AnalyzeRequest \/ FetchRejects \/ FetchResolves
    \/ GenerateFixMissingKey \/ GenerateFixRequest
    \/ GenerateFixFetchRejects \/ GenerateFixFetchResolves

(***************************************************************************)
(* autofix.ts: SAFE_AUTOFIX_PATTERNS.  A text is the sequence of its       *)
(* symbols: single characters ("a" stands for a word character, "=", "!",  *)
(* " ", "\t", "\n", ";", ")") and the multi-character words "var",         *)
(* "const", "console." and "log(".  The rewrites are String.replace with a *)
(* global regex: the text is scanned from the left, a match is replaced    *)
(* and the scan goes on behind it.                                         *)
(***************************************************************************)
IsMultiChar(t) == t \in {"var", "const", "console.", "log("}

Symbols ==
    {"a", "=", "!", " ", "\t", "\n", ";", ")", "var", "const", "console.", "log("}

\* the symbols whose characters are all word characters (\w)
Words == {"a", "var", "const"}

\* the symbol's last character is a word character
EndsWithWord(t) == t \in Words

\* the symbol's first character is a word character
StartsWithWord(t) == t \in Words \cup {"console.", "log("}

\* \s
Spaces == {" ", "\t", "\n"}

\* [ \t]
Blanks == {" ", "\t"}

IsBlank(t) == t \in Blanks

\* the least index j >= i with s[j] not in S, Len(s) + 1 if there is none
RECURSIVE SkipWhile(_, _, _)
SkipWhile(s, i, S) ==
    IF i <= Len(s) /\ s[i] \in S THEN SkipWhile(s, i + 1, S) ELSE i

\* "var-to-const": code.replace(/\bvar\s+(\w+)/g, "const $1")
RECURSIVE varToConstFrom(_, _)
varToConstFrom(s, i) ==
    IF i > Len(s) THEN <<>>
    ELSE LET w == SkipWhile(s, i + 1, Spaces)      \* behind \s*
             e == SkipWhile(s, w, Words)            \* behind the whole words of \w+
         IN IF /\ s[i] = "var"
               /\ (i = 1 \/ ~EndsWithWord(s[i - 1]))           \* \b
               /\ w > i + 1                                     \* \s+
               /\ w <= Len(s) /\ StartsWithWord(s[w])           \* \w+
            THEN \* $1 ends inside s[e] when that symbol starts with a word character
                 LET last == IF e <= Len(s) /\ StartsWithWord(s[e]) THEN e ELSE e - 1
                 IN <<"const", " ">> \o SubSeq(s, w, last) \o varToConstFrom(s, last + 1)
            ELSE <<s[i]>> \o varToConstFrom(s, i + 1)

varToConst(code) == varToConstFrom(code, 1)

\* "remove-console": code.replace(/console\.(log|debug|info)\([^)]*\);?\n?/g, "")
RECURSIVE removeConsoleFrom(_, _)
removeConsoleFrom(s, i) ==
    IF i > Len(s) THEN <<>>
    ELSE LET c  == SkipWhile(s, i + 2, Symbols \ {")"})     \* behind [^)]*
             e1 == IF c + 1 <= Len(s) /\ s[c + 1] = ";" THEN c + 1 ELSE c
             e2 == IF e1 + 1 <= Len(s) /\ s[e1 + 1] = "\n" THEN e1 + 1 ELSE e1
         IN IF /\ s[i] = "console."
               /\ i + 1 <= Len(s) /\ s[i + 1] = "log("
               /\ c <= Len(s)                                   \* the closing \)
            THEN removeConsoleFrom(s, e2 + 1)
            ELSE <<s[i]>> \o removeConsoleFrom(s, i + 1)

removeConsole(code) == removeConsoleFrom(code, 1)

\* $ under the m flag: at the end of the text or before a line terminator
AtLineEnd(s, j) == j > Len(s) \/ s[j] = "\n"

\* the same replacement without the m flag: only the end of the text is trimmed
trimWhitespaceEndOnly(code) ==
    LET n == CHOOSE n \in 0..Len(code) :
                 /\ \A i \in (n + 1)..Len(code) : IsBlank(code[i])
                 /\ (n = 0 \/ ~IsBlank(code[n]))
    IN SubSeq(code, 1, n)

\* "trim-whitespace": code.replace(/[ \t]+$/gm, "")
RECURSIVE trimWhitespaceFrom(_, _)
trimWhitespaceFrom(s, i) ==
    IF i > Len(s) THEN <<>>
    ELSE LET j == SkipWhile(s, i, Blanks) IN
         IF IsBlank(s[i]) /\ AtLineEnd(s, j)
         THEN trimWhitespaceFrom(s, j)
         ELSE <<s[i]>> \o trimWhitespaceFrom(s, i + 1)

trimWhitespace(code) == trimWhitespaceFrom(code, 1)

\* "strict-equality": code.replace(/([^=!])={2}([^=])/g, "$1===$2").
\* $1 is the last character of s[i] and $2 the first of s[i + 3]; of a
\* multi-character s[i + 3] the rest is still there for the next match.
RECURSIVE strictEqualityFrom(_, _)
strictEqualityFrom(s, i) ==
    IF i > Len(s) THEN <<>>
    ELSE IF /\ i + 3 <= Len(s)
            /\ s[i] \notin {"=", "!"}
            /\ s[i + 1] = "=" /\ s[i + 2] = "="
            /\ s[i + 3] # "="
         THEN <<s[i], "=", "=", "=">>
              \o (IF IsMultiChar(s[i + 3])
                  THEN strictEqualityFrom(s, i + 3)
                  ELSE <<s[i + 3]>> \o strictEqualityFrom(s, i + 4))
         ELSE <<s[i]>> \o strictEqualityFrom(s, i + 1)

strictEquality(code) == strictEqualityFrom(code, 1)

\* SAFE_AUTOFIX_PATTERNS[name](code)
RECURSIVE addSemicolonsFrom(_, _)
\* "add-semicolons": code.replace(/([^;\s])\n/g, "$1;\n")
addSemicolonsFrom(s, i) ==
    IF i > Len(s) THEN <<>>
    ELSE IF i < Len(s) /\ s[i] \notin ({";"} \cup Spaces) /\ s[i + 1] = "\n"
         THEN <<s[i], ";", "\n">> \o addSemicolonsFrom(s, i + 2)
         ELSE <<s[i]>> \o addSemicolonsFrom(s, i + 1)

addSemicolons(code) == addSemicolonsFrom(code, 1)

\* "quotes-single": code.replace(/"([^"\\]*(\\.[^"\\]*)*)"/g, "'$1'"); no symbol of
\* the model holds a double quote, so the pattern matches nowhere
quotesSingle(code) == code

SAFE_AUTOFIX_PATTERNS(name, code) ==
    CASE name = "var-to-const"    -> varToConst(code)
      [] name = "remove-console"  -> removeConsole(code)
      [] name = "add-semicolons"  -> addSemicolons(code)
      [] name = "quotes-single"   -> quotesSingle(code)
      [] name = "trim-whitespace" -> trimWhitespace(code)
      [] name = "strict-equality" -> strictEquality(code)

TxIdle ==
    /\ txName = "none"
    /\ txInput = <<>>
    /\ txPrev = <<>>
    /\ txCode = <<>>
    /\ txPasses = 0

\* the texts given to a pattern
TxInit(name, alphabet, maxLen) ==
    /\ txName = name
    /\ txInput \in SeqsUpTo(alphabet, maxLen)
    /\ txPrev = txInput
    /\ txCode = txInput
    /\ txPasses = 0

StrictInit  == TxInit("strict-equality", {"a", "=", "!"}, MaxStrictLen)
ConsoleInit == TxInit("remove-console", {"console.", "log(", ")", ";", "a"}, MaxConsoleLen)
TrimInit    == TxInit("trim-whitespace", {"a", " ", "\t", "\n"}, MaxTrimLen)

\* the pattern is applied to the text, at most twice in a row
ApplyPattern ==
    /\ txName # "none"
    /\ txPasses < 2
    /\ txPrev' = txCode
    /\ txCode' = SAFE_AUTOFIX_PATTERNS(txName, txCode)
    /\ txPasses' = txPasses + 1
    /\ UNCHANGED <<txName, txInput, notTx>>

TxNext == ApplyPattern

(***************************************************************************)
(* autofix.ts: canAutoFix, applyAutoFixes, applyIssueFix, groupByFile.     *)
(***************************************************************************)
\* issue.problem.toLowerCase()
toLowerCase(problem) ==
    CASE problem = "Uses var instead of const" -> "uses var instead of const"
      [] problem = "Remove console.log call"   -> "remove console.log call"
      [] problem = "Trailing whitespace"       -> "trailing whitespace"
      [] problem = "Use const/let"             -> "use const/let"
      [] problem = "Use strict equality"       -> "use strict equality"
      [] problem = "Missing semicolon"         -> "missing semicolon"
      [] problem = "Missing ARIA label"        -> "missing aria label"
      [] problem = "Change == to ==="          -> "change == to ==="
      [] problem = "Missing semicolon, change == to ===" -> "missing semicolon, change == to ==="

Problems ==
    { "Uses var instead of const", "Remove console.log call", "Trailing whitespace",
      "Use const/let", "Use strict equality", "Missing semicolon",
      "Missing ARIA label", "Change == to ===", "Missing semicolon, change == to ===" }

\* safePatterns of canAutoFix: the lower-cased texts each pattern matches
safePatterns ==
    << {"uses var instead of const"},      \* /var\s+\w+/i
       {"remove console.log call"},        \* /console\.(log|debug|info)/i
       {"trailing whitespace"},            \* /trailing\s+whitespace/i
       {"use const/let"},                  \* /use\s+const\/let/i
       {"use strict equality"},            \* /strict\s+equality/i
       {"missing semicolon",               \* /missing\s+semicolon/i
        "missing semicolon, change == to ==="} >>

\* canAutoFix without the allow-list
canAutoFixAny(issue) == issue.problem \in Problems

canAutoFix(issue) ==
    \E k \in 1..Len(safePatterns) : toLowerCase(issue.problem) \in safePatterns[k]

\* fixTests with a fifth test that wires "missing semicolon" to add-semicolons
fixTestsWithSemicolons ==
    << [matches |-> {"uses var instead of const"}, name |-> "var-to-const"],
       [matches |-> {"remove console.log call"}, name |-> "remove-console"],
       [matches |-> {"trailing whitespace"}, name |-> "trim-whitespace"],
       [matches |-> {"use strict equality", "change == to ===",
                     "missing semicolon, change == to ==="},
        name |-> "strict-equality"],
       [matches |-> {"missing semicolon"}, name |-> "add-semicolons"] >>

\* the tests of applyIssueFix, in order, with the pattern each selects
fixTests ==
    << [matches |-> {"uses var instead of const"},     \* /var\s+/
        name |-> "var-to-const"],
       [matches |-> {"remove console.log call"},       \* /console\.(log|debug|info)/
        name |-> "remove-console"],
       [matches |-> {"trailing whitespace"},           \* /trailing\s+whitespace/
        name |-> "trim-whitespace"],
       [matches |-> {"use strict equality", "change == to ===",
                     "missing semicolon, change == to ==="},
                                                       \* /strict\s+equality|==\s+to\s+===/
        name |-> "strict-equality"] >>

\* the places at which sub occurs in s
OccurrencesOf(s, sub) ==
    { i \in 1..(Len(s) - Len(sub) + 1) : SubSeq(s, i, i + Len(sub) - 1) = sub }

RECURSIVE ExpandReplacement(_, _)
\* the replacement text of String.replace: "$$" inserts "$", "$&" the match
ExpandReplacement(repl, matched) ==
    IF repl = <<>> THEN <<>>
    ELSE (CASE Head(repl) = "$$" -> <<"$">>
            [] Head(repl) = "$&" -> matched
            [] OTHER -> <<Head(repl)>>)
         \o ExpandReplacement(Tail(repl), matched)

\* content.replace(snippet, fixedCode) with a string pattern: the first occurrence
replaceFirst(content, snippet, fixedCode) ==
    IF OccurrencesOf(content, snippet) = {} THEN content
    ELSE LET i == CHOOSE i \in OccurrencesOf(content, snippet) :
                      \A k \in OccurrencesOf(content, snippet) : i <= k
         IN SubSeq(content, 1, i - 1)
            \o ExpandReplacement(fixedCode, snippet)
            \o SubSeq(content, i + Len(snippet), Len(content))

RECURSIVE firstFixTest(_, _)
\* the pattern of the first test from k on that the text passes, "none" if none does
firstFixTest(problem, k) ==
    IF k > Len(fixTests) THEN "none"
    ELSE IF problem \in fixTests[k].matches THEN fixTests[k].name
         ELSE firstFixTest(problem, k + 1)

\* the return statement of applyIssueFix the issue reaches: "snippet" for the
\* replacement of snippet by fixedCode, the name of a safe pattern, or "none"
\* for the final return content
fixKind(issue) ==
    IF issue.fixedCode # <<>> /\ issue.snippet # <<>> THEN "snippet"
    ELSE firstFixTest(toLowerCase(issue.problem), 1)

applyIssueFix(content, issue) ==
    LET kind == fixKind(issue) IN
    IF kind = "snippet" THEN replaceFirst(content, issue.snippet, issue.fixedCode)
    ELSE IF kind = "none" THEN content
    ELSE SAFE_AUTOFIX_PATTERNS(kind, content)

\* the record of one applyIssueFix call: the text tested, the return statement
\* reached and whether the returned text differs from the argument
appliedFor(content, issue) ==
    [problem |-> toLowerCase(issue.problem), kind |-> fixKind(issue),
     changed |-> applyIssueFix(content, issue) # content]

\* the keys of groupByFile's object, in insertion order
groupKeys(issues) == Dedupe(<<>>, [i \in 1..Len(issues) |-> issues[i].file])

\* grouped[file]
groupOf(issues, file) == SelectSeq(issues, LAMBDA issue : issue.file = file)

RECURSIVE applyIssuesCountAll(_, _)
\* applyIssues with fixCount++ outside the test of a change
applyIssuesCountAll(list, st) ==
    IF list = <<>> THEN st
    ELSE applyIssuesCountAll(Tail(list),
                             [content |-> applyIssueFix(st.content, Head(list)),
                              fixCount |-> st.fixCount + 1,
                              applied |-> Append(st.applied,
                                                 appliedFor(st.content, Head(list)))])

RECURSIVE applyIssues(_, _)
\* the loop over autoFixableIssues; st is [content, fixCount, applied]
applyIssues(list, st) ==
    IF list = <<>> THEN st
    ELSE LET fixed == applyIssueFix(st.content, Head(list))
             applied == Append(st.applied, appliedFor(st.content, Head(list)))
         IN applyIssues(Tail(list),
                        IF fixed # st.content
                        THEN [content |-> fixed, fixCount |-> st.fixCount + 1,
                              applied |-> applied]
                        ELSE [st EXCEPT !.applied = applied])

Missing == <<"<missing>">>

\* a path that exists and cannot be read as a file (a directory, no permission)
Unreadable == <<"<unreadable>">>

\* path.join(process.cwd(), filePath): the file a spelling names
fullPathOf(filePath) == IF filePath = "./f.ts" THEN "f.ts" ELSE filePath

\* the fs.writeFileSync calls for a file with fixCount > 0, in order:
\* the backup if options.backup, then the file unless options.dryRun
fileWrites(options, fullPath, originalContent, content) ==
    (IF options.backup
     THEN << [path |-> fullPath, backup |-> TRUE, content |-> originalContent] >>
     ELSE <<>>)
    \o (IF ~options.dryRun
        THEN << [path |-> fullPath, backup |-> FALSE, content |-> content] >>
        ELSE <<>>)

RECURSIVE applyFiles(_, _, _, _)
\* the loop of applyAutoFixes over Object.entries(fileIssues);
\* st is [files, backups, results, writes, threw, applied]
applyFiles(keys, issues, options, st) ==
    IF keys = <<>> THEN st
    ELSE LET filePath == Head(keys)
             fullPath == fullPathOf(filePath)
             autoFixableIssues == SelectSeq(groupOf(issues, filePath), canAutoFix)
         IN IF Len(autoFixableIssues) = 0
            THEN applyFiles(Tail(keys), issues, options, st)
            ELSE IF st.files[fullPath] = Missing                 \* !fs.existsSync(fullPath)
            THEN applyFiles(Tail(keys), issues, options, st)
            ELSE IF st.files[fullPath] = Unreadable              \* fs.readFileSync throws
            THEN [st EXCEPT !.threw = TRUE]
            ELSE LET originalContent == st.files[fullPath]
                     done == applyIssues(autoFixableIssues,
                                         [content |-> originalContent, fixCount |-> 0,
                                          applied |-> st.applied])
                 IN IF done.fixCount > 0
                    THEN applyFiles(Tail(keys), issues, options,
                           [files   |-> IF ~options.dryRun
                                        THEN [st.files EXCEPT ![fullPath] = done.content]
                                        ELSE st.files,
                            backups |-> IF options.backup
                                        THEN [st.backups EXCEPT ![fullPath] = originalContent]
                                        ELSE st.backups,
                            results |-> Append(st.results,
                                               [file |-> filePath,
                                                fixesApplied |-> done.fixCount,
                                                issues |-> autoFixableIssues]),
                            writes  |-> st.writes \o fileWrites(options, fullPath,
                                                             originalContent, done.content),
                            threw   |-> FALSE,
                            applied |-> done.applied])
                    ELSE applyFiles(Tail(keys), issues, options,
                                    [st EXCEPT !.applied = done.applied])

applyAutoFixes(issues, options, fls, bks) ==
    applyFiles(groupKeys(issues), issues, options,
               [files |-> fls, backups |-> bks, results |-> <<>>, writes |-> <<>>,
                threw |-> FALSE, applied |-> <<>>])

\* the source files and the issues tried
FixFiles == {"f.ts", "g.ts"}

NoText == <<>>

SourceTexts ==
    SeqsUpTo({"="}, MaxFixLen)
    \cup { <<"var", " ", "a", ";", "\n", "a", " ", "=", "=", " ", "a", "\n">>,
           <<"a", "=", "=", "a", "=", "=", "a">>,
           <<"console.", "log(", "a", ")", ";", "\n", "a">>,
           <<"a", " ", "\n", "a", "\t">> }

Issue(file, problem, snippet, fixedCode) ==
    [file |-> file, problem |-> problem, snippet |-> snippet, fixedCode |-> fixedCode]

IssuePool ==
    { Issue("f.ts", "Uses var instead of const", NoText, NoText),
      Issue("f.ts", "Use strict equality", NoText, NoText),
      Issue("f.ts", "Remove console.log call", NoText, NoText),
      Issue("f.ts", "Trailing whitespace", NoText, NoText),
      Issue("f.ts", "Use strict equality", <<"=", "=">>, <<"$&", "=">>),
      Issue("f.ts", "Missing ARIA label", <<"a">>, <<"const">>),
      Issue("f.ts", "Missing semicolon", NoText, NoText),
      Issue("f.ts", "Missing semicolon, change == to ===", NoText, NoText),
      Issue("./f.ts", "Uses var instead of const", NoText, NoText),
      Issue("g.ts", "Uses var instead of const", NoText, NoText) }

FixIdle ==
    /\ srcFiles = [f \in FixFiles |-> Missing]
    /\ backups = [f \in FixFiles |-> Missing]
    /\ fixIssues = <<>>
    /\ fixOptions = [dryRun |-> FALSE, backup |-> FALSE]
    /\ fixCalls = 0
    /\ fixResults = <<>>
    /\ srcBefore = [f \in FixFiles |-> Missing]
    /\ writes = <<>>
    /\ fixThrew = FALSE
    /\ fixApplied = <<>>
    /\ runOptions = [autoFix |-> FALSE, dryRun |-> FALSE]
    /\ runPc = "idle"
    /\ runConfirm = "none"

\* g.ts is varied only when an issue of the list names it
FixInit ==
    /\ fixIssues \in SeqsUpTo(IssuePool, MaxIssues)
    /\ \E t \in SourceTexts, g \in {Missing, Unreadable, <<"var", " ", "a">>} :
          /\ (\A i \in 1..Len(fixIssues) : fixIssues[i].file # "g.ts") => g = Missing
          /\ srcFiles = [f \in FixFiles |-> IF f = "f.ts" THEN t ELSE g]
    /\ backups = [f \in FixFiles |-> Missing]
    /\ fixOptions \in [dryRun : BOOLEAN, backup : BOOLEAN]
    /\ fixCalls = 0
    /\ fixResults = <<>>
    /\ srcBefore = srcFiles
    /\ writes = <<>>
    /\ fixThrew = FALSE
    /\ fixApplied = <<>>
    /\ runOptions = [autoFix |-> FALSE, dryRun |-> FALSE]
    /\ runPc = "idle"
    /\ runConfirm = "none"

\* applyAutoFixes(issues, options); called again with the same arguments
ApplyAutoFixes ==
    /\ fixCalls < 2
    /\ LET st == applyAutoFixes(fixIssues, fixOptions, srcFiles, backups) IN
       /\ srcFiles' = st.files
       /\ backups' = st.backups
       /\ fixResults' = IF st.threw THEN <<>> ELSE st.results
       /\ writes' = st.writes
       /\ fixThrew' = st.threw
       /\ fixApplied' = st.applied
    /\ srcBefore' = srcFiles
    /\ fixCalls' = fixCalls + 1
    /\ UNCHANGED <<fixIssues, fixOptions, runOptions, runPc, runConfirm, notFix>>

FixNext == ApplyAutoFixes

(***************************************************************************)
(* runAnalyze: the auto-fix block that follows the output of the issues.   *)
(* fixIssues stands for filteredIssues.                                    *)
(***************************************************************************)
\* filteredIssues.filter(canAutoFix)
fixableIssues == SelectSeq(fixIssues, canAutoFix)

\* the project and the issue list are those of FixInit; the options are the
\* --auto-fix and --dry-run flags of prefl analyze
RunInit ==
    /\ fixIssues \in SeqsUpTo(IssuePool, MaxIssues)
    /\ \E t \in SourceTexts, g \in {Missing, Unreadable, <<"var", " ", "a">>} :
          /\ (\A i \in 1..Len(fixIssues) : fixIssues[i].file # "g.ts") => g = Missing
          /\ srcFiles = [f \in FixFiles |-> IF f = "f.ts" THEN t ELSE g]
    /\ backups = [f \in FixFiles |-> Missing]
    /\ fixOptions = [dryRun |-> FALSE, backup |-> FALSE]
    /\ fixCalls = 0
    /\ fixResults = <<>>
    /\ srcBefore = srcFiles
    /\ writes = <<>>
    /\ fixThrew = FALSE
    /\ fixApplied = <<>>
    /\ runOptions \in [autoFix : BOOLEAN, dryRun : BOOLEAN]
    /\ runPc = "start"
    /\ runConfirm = "none"

\* if (shouldApply || options.dryRun) await applyAutoFixes(fixableIssues,
\*     { dryRun: options.dryRun || !shouldApply, backup: true })
RunApplyIf(shouldApply) ==
    IF shouldApply \/ runOptions.dryRun
    THEN LET options == [dryRun |-> runOptions.dryRun \/ ~shouldApply, backup |-> TRUE]
             st == applyAutoFixes(fixableIssues, options, srcFiles, backups)
         IN /\ srcFiles' = st.files
            /\ backups' = st.backups
            /\ fixResults' = IF st.threw THEN <<>> ELSE st.results
            /\ writes' = st.writes
            /\ fixThrew' = st.threw
            /\ fixApplied' = st.applied
            /\ fixOptions' = options
            /\ fixCalls' = fixCalls + 1
    ELSE UNCHANGED <<srcFiles, backups, fixResults, writes, fixThrew, fixApplied,
                     fixOptions, fixCalls>>

\* neither option is set, or no issue is auto-fixable
RunWithoutAutoFix ==
    /\ runPc = "start"
    /\ \/ ~(runOptions.autoFix \/ runOptions.dryRun)
       \/ Len(fixableIssues) = 0
    /\ runPc' = "done"
    /\ UNCHANGED <<srcFiles, backups, fixIssues, fixOptions, fixCalls, fixResults,
                   srcBefore, writes, fixThrew, fixApplied, runOptions, runConfirm, notFix>>

\* options.autoFix && !options.dryRun: the prompt is shown
RunPrompt ==
    /\ runPc = "start"
    /\ runOptions.autoFix \/ runOptions.dryRun
    /\ Len(fixableIssues) > 0
    /\ runOptions.autoFix /\ ~runOptions.dryRun
    /\ runPc' = "prompting"
    /\ UNCHANGED <<srcFiles, backups, fixIssues, fixOptions, fixCalls, fixResults,
                   srcBefore, writes, fixThrew, fixApplied, runOptions, runConfirm, notFix>>

\* shouldApply = response.confirm
RunAnswer ==
    /\ runPc = "prompting"
    /\ \E confirm \in BOOLEAN :
          /\ runConfirm' = IF confirm THEN "yes" ELSE "no"
          /\ RunApplyIf(confirm)
    /\ runPc' = "done"
    /\ UNCHANGED <<fixIssues, srcBefore, runOptions, notFix>>

\* no prompt: shouldApply = options.autoFix
RunNoPrompt ==
    /\ runPc = "start"
    /\ runOptions.autoFix \/ runOptions.dryRun
    /\ Len(fixableIssues) > 0
    /\ ~(runOptions.autoFix /\ ~runOptions.dryRun)
    /\ RunApplyIf(runOptions.autoFix)
    /\ runPc' = "done"
    /\ UNCHANGED <<fixIssues, srcBefore, runOptions, runConfirm, notFix>>

RunNext == RunWithoutAutoFix \/ RunPrompt \/ RunAnswer \/ RunNoPrompt

(***************************************************************************)
(* Commit gating: the end of runAnalyze and the pre-commit hook that       *)
(* installHook writes.                                                     *)
(***************************************************************************)
Severities == {"critical", "warning", "info"}

\* the severity values an issue can carry: the three levels, a value outside
\* them (normalizeIssues keeps what the remote answer holds) and the empty text
IssueSeverities == Severities \cup {"high", ""}

\* a list setting of prefl.json: absent, or present with its entries
NoSetting == [present |-> FALSE, entries |-> {}]
Setting(S) == [present |-> TRUE, entries |-> S]

\* cfg.review?.blockSeverities ?? ["critical"]
blockersOf(cfg) == IF cfg.present THEN cfg.entries ELSE {"critical"}

\* cfg.review?.showSeverities ?? ["critical", "warning"]
shownOf(cfg) == IF cfg.present THEN cfg.entries ELSE {"critical", "warning"}

\* issues.filter((i) => showSeverities.includes(i.severity || "warning"))
filteredIssues(issues, cfg) ==
    SelectSeq(issues, LAMBDA sev : (IF sev = "" THEN "warning" ELSE sev) \in shownOf(cfg))

\* issues.some((i) => i.severity && blockers.has(i.severity))
hasBlocker(issues, cfg) ==
    \E i \in 1..Len(issues) : issues[i] # "" /\ issues[i] \in blockersOf(cfg)

\* the pre-commit script under set -e: the exit status it ends with when
\* prefl analyze --staged ends with status
hookStatus(status) == IF status # 0 THEN status ELSE 0

GateIdle ==
    /\ gateIssues = <<>>
    /\ blockSeverities = NoSetting
    /\ showSeverities = NoSetting
    /\ exitCode = 0
    /\ gatePc = "idle"
    /\ commit = "none"

GateInit ==
    /\ gateIssues \in SeqsUpTo(IssueSeverities, MaxGateIssues)
    /\ blockSeverities \in {NoSetting} \cup { Setting(S) : S \in SUBSET Severities }
    /\ showSeverities \in {NoSetting, Setting({}), Setting({"info"})}
    /\ exitCode = 0
    /\ gatePc = "start"
    /\ commit = "none"

\* runAnalyze with the blocker test made on filteredIssues
RunAnalyzeCompletesShown ==
    /\ gatePc = "start"
    /\ exitCode' = IF hasBlocker(filteredIssues(gateIssues, showSeverities), blockSeverities)
                   THEN 1 ELSE exitCode
    /\ gatePc' = "exited"
    /\ UNCHANGED <<gateIssues, blockSeverities, showSeverities, commit, notGate>>

\* runAnalyze runs to its end: the issues are shown, then the blocker test
RunAnalyzeCompletes ==
    /\ gatePc = "start"
    /\ exitCode' = IF hasBlocker(gateIssues, blockSeverities) THEN 1 ELSE exitCode
    /\ gatePc' = "exited"
    /\ UNCHANGED <<gateIssues, blockSeverities, showSeverities, commit, notGate>>

\* if (filtered.length === 0) return: nothing is analysed
RunAnalyzeNoFiles ==
    /\ gatePc = "start"
    /\ gateIssues = <<>>
    /\ gatePc' = "exited"
    /\ UNCHANGED <<gateIssues, blockSeverities, showSeverities, exitCode, commit, notGate>>

\* runAnalyze rejects (analyzeWithGroq or applyAutoFixes raised): node ends
\* the process with status 1
RunAnalyzeRejects ==
    /\ gatePc = "start"
    /\ exitCode' = 1
    /\ gatePc' = "crashed"
    /\ UNCHANGED <<gateIssues, blockSeverities, showSeverities, commit, notGate>>

\* git runs the pre-commit script around prefl analyze --staged
PreCommitHook ==
    /\ gatePc \in {"exited", "crashed"}
    /\ commit' = IF hookStatus(exitCode) # 0 THEN "blocked" ELSE "allowed"
    /\ gatePc' = IF gatePc = "exited" THEN "hooked" ELSE "hooked-crash"
    /\ UNCHANGED <<gateIssues, blockSeverities, showSeverities, exitCode, notGate>>

GateNext ==
    RunAnalyzeCompletes \/ RunAnalyzeNoFiles \/ RunAnalyzeRejects \/ PreCommitHook

(***************************************************************************)
(* Specifications.                                                         *)
(***************************************************************************)
\* context building: pickContextFiles and expandContextByImports
Init == CtxInit /\ ScanIdle /\ GroqIdle /\ TxIdle /\ FixIdle /\ GateIdle
Spec == Init /\ [][CtxNext]_vars

\* one run of heuristicScan on a diff
InitScan == ScanInit /\ CtxIdle /\ GroqIdle /\ TxIdle /\ FixIdle /\ GateIdle
SpecScan == InitScan /\ [][ScanNext]_vars

\* one call of resolveImportPath
InitResolve == ResolveInit /\ ScanIdle /\ GroqIdle /\ TxIdle /\ FixIdle /\ GateIdle
SpecResolve == InitResolve /\ [][ResolveNext]_vars

\* heuristicScan on the staged diff of one file
InitUnified == UnifiedInit /\ CtxIdle /\ GroqIdle /\ TxIdle /\ FixIdle /\ GateIdle
SpecUnified == InitUnified /\ [][ScanNext]_vars

\* heuristicScan on the whole-file diff of the project's files
InitSynthetic == SyntheticInit /\ CtxIdle /\ GroqIdle /\ TxIdle /\ FixIdle /\ GateIdle
SpecSynthetic == InitSynthetic /\ [][ScanNext]_vars

\* one call of analyzeWithGroq
InitGroq == GroqInit /\ CtxIdle /\ TxIdle /\ FixIdle /\ GateIdle
SpecGroq == InitGroq /\ [][GroqNext]_vars

\* a safe pattern applied to a text, and to its own result
InitStrict  == StrictInit /\ CtxIdle /\ ScanIdle /\ GroqIdle /\ FixIdle /\ GateIdle
SpecStrict  == InitStrict /\ [][TxNext]_vars
InitConsole == ConsoleInit /\ CtxIdle /\ ScanIdle /\ GroqIdle /\ FixIdle /\ GateIdle
SpecConsole == InitConsole /\ [][TxNext]_vars
InitTrim    == TrimInit /\ CtxIdle /\ ScanIdle /\ GroqIdle /\ FixIdle /\ GateIdle
SpecTrim    == InitTrim /\ [][TxNext]_vars

\* applyAutoFixes on a project, and once more with the same issue list
InitFix == FixInit /\ CtxIdle /\ ScanIdle /\ GroqIdle /\ TxIdle /\ GateIdle
SpecFix == InitFix /\ [][FixNext]_vars

\* the auto-fix block of prefl analyze
InitRun == RunInit /\ CtxIdle /\ ScanIdle /\ GroqIdle /\ TxIdle /\ GateIdle
SpecRun == InitRun /\ [][RunNext]_vars

\* the end of prefl analyze and the pre-commit hook
InitGate == GateInit /\ CtxIdle /\ ScanIdle /\ GroqIdle /\ TxIdle /\ FixIdle
SpecGate == InitGate /\ [][GateNext]_vars

(***************************************************************************)
(* Claims about the context resolver, under Spec.                          *)
(***************************************************************************)
\* the seed expandContextByImports was called with
seedOf == pickContextFiles(disk, files, baseLimit)

IsPrefix(s, t) == Len(s) <= Len(t) /\ SubSeq(t, 1, Len(s)) = s

\* C1: whatever the seed, the budget and the disk, expandContextByImports
\* returns at most maxFiles entries, also when the seed is longer than maxFiles.
C1_BudgetInvariant == ctxPc = "done" => Len(out) <= maxFiles

\* C2: the list expandContextByImports returns never holds two entries with
\* equal path.
C2_NoDuplicatePaths ==
    ctxPc = "done" =>
        \A i, j \in 1..Len(out) : i # j => out[i].path # out[j].path

\* C3: the seed entries are the first |seed| entries of out, unchanged and in
\* order, from the copy on, and every step of the expansion only appends to out.
C3_SeedPreserved ==
    /\ [](ctxPc \in {"loop", "done"} => IsPrefix(seedOf, out))
    /\ [][ctxPc = "loop" => IsPrefix(out, out')]_vars

C3_Witness ==
    /\ ctxPc = "done"
    /\ Len(seedOf) >= 1
    /\ Len(out) >= Len(seedOf) + 2

\* C4: expandContextByImports returns for every disk and every seed, and no
\* path is put on the queue twice.  Returning: ExpandStep and ExpandReturn have
\* complementary guards and each iteration lowers C4_Variant, which is never
\* negative (C4_VariantDecreases); C4_EnqueuedAtMostOnce is the second half.
C4_Variant == Len(queue) + Cardinality(FilePaths \ seen)

C4_VariantDecreases == [][ExpandStep => C4_Variant' < C4_Variant]_vars

C4_EnqueuedAtMostOnce ==
    \A i, j \in 1..Len(enqueued) : i # j => enqueued[i] # enqueued[j]

\* the path names a regular file of the disk
IsFileOnDisk(path) == Normalize(path) \in FilePaths

\* the paths of the entries of a context
PathsOf(ctx) == { ctx[i].path : i \in 1..Len(ctx) }

\* C18: every entry pickContextFiles returns or expandContextByImports appends
\* was read from disk; a token that resolves to nothing or to something that
\* cannot be read inserts nothing and is not marked seen, and the tokens and
\* queued items after it are still processed.
C18_OnlyReadableFiles ==
    ctxPc \in {"loop", "done"} =>
        /\ \A i \in 1..Len(out) :
              /\ IsFileOnDisk(out[i].path)
              /\ out[i].content = disk[Normalize(out[i].path)]
        /\ [i \in 1..Len(seedOf) |-> seedOf[i].path]
              = SelectSeq(Slice0(files, baseLimit), IsFileOnDisk)
        /\ seen = PathsOf(out)
        /\ (ctxPc = "done" /\ Len(out) < maxFiles) =>
              \A i \in 1..Len(out) :
                  \A t \in Range(parseRelativeImports(out[i].content)) :
                      LET resolved == resolveImportPath(disk, out[i].path, t) IN
                      (resolved # NoPath /\ IsFileOnDisk(resolved))
                          => resolved \in PathsOf(out)

\* a directory in the file list is left out of the seed, and a file is appended
\* for a token that follows a token that resolves to nothing
C18_Witness ==
    /\ ctxPc = "done"
    /\ \E i \in 1..Len(files) : ~IsFileOnDisk(files[i])
    /\ \E i \in 1..Len(out) :
          LET imports == parseRelativeImports(out[i].content) IN
          /\ Len(imports) = 2
          /\ resolveImportPath(disk, out[i].path, imports[1]) = NoPath
          /\ resolveImportPath(disk, out[i].path, imports[2]) \in PathsOf(out)
          /\ resolveImportPath(disk, out[i].path, imports[2]) \notin PathsOf(seedOf)

\* the candidates of the list cs that exist on disk, by index
ExistingAt(cs) == { i \in DOMAIN cs : existsSync(disk, cs[i]) }

\* the directory the token t of file f names, if it names one
TokenDir(f, t) == Normalize(Dirname(Normalize(f)) \o t)

\* C22: the candidates are the token with each extension in list order, the
\* empty extension first, then token/<index file> in list order; the result is
\* the first candidate that exists on disk, relative to the working directory,
\* and none exactly when no candidate exists.
C22_CandidateOrder ==
    resolveResult.returned =>
        LET f  == Normalize(resolveCall.fromFile)
            t  == resolveCall.rel
            cs == candidates(f, t)
            r  == resolveResult.path
            E  == ExistingAt(cs)
        IN /\ DOMAIN cs = 1..(Len(extensions) + Len(indexFiles))
           /\ extensions[1] = ""
           /\ \A i \in 1..Len(extensions) :
                 cs[i] = Normalize(Dirname(f) \o WithSuffix(t, extensions[i]))
           /\ \A j \in 1..Len(indexFiles) :
                 cs[Len(extensions) + j] = Normalize(Dirname(f) \o t \o <<indexFiles[j]>>)
           /\ (r = NoPath) <=> (E = {})
           /\ E # {} =>
                 /\ r = cs[CHOOSE i \in E : \A k \in E : i <= k]
                 /\ Normalize(r) = r

\* the call returned the first of two existing candidates: the directory the
\* token names, which holds an index file
C22_Witness ==
    /\ resolveResult.returned
    /\ Cardinality(ExistingAt(candidates(resolveCall.fromFile, resolveCall.rel))) >= 2
    /\ resolveResult.path \in Dirs

\* the call returned none
ResolvedToNone ==
    /\ resolveResult.returned
    /\ resolveResult.path = NoPath

\* C23: a token that names a directory holding an index file, with no file
\* token+extension, resolves to that index file, and the expansion adds the
\* index file to the context.
C23_DirectoryLookup ==
    (ctxPc = "done" /\ Len(out) < maxFiles) =>
        \A i \in 1..Len(out) :
            LET f == Normalize(out[i].path) IN
            \A t \in Range(parseRelativeImports(out[i].content)) :
                \A j \in 1..Len(indexFiles) :
                    LET index == TokenDir(f, t) \o <<indexFiles[j]>> IN
                    (/\ TokenDir(f, t) \in Dirs
                     /\ index \in FilePaths
                     /\ \A k \in 1..(j - 1) : TokenDir(f, t) \o <<indexFiles[k]>> \notin FilePaths
                     /\ \A e \in 1..Len(extensions) :
                           Normalize(Dirname(f) \o WithSuffix(t, extensions[e])) \notin FilePaths)
                    => /\ resolveImportPath(disk, f, t) = index
                       /\ index \in PathsOf(out)

\* what the imports of out[k] resolve to
TargetsOf(k) ==
    { resolveImportPath(disk, out[k].path, t) :
        t \in Range(parseRelativeImports(out[k].content)) }

\* the entries of out whose imports resolve to the path of out[j]
ImportersOf(j) == { k \in 1..Len(out) : out[j].path \in TargetsOf(k) }

\* the item that discovered out[j]: items leave the queue in the order of out
DiscovererOf(j) == CHOOSE k \in ImportersOf(j) : \A m \in ImportersOf(j) : k <= m

\* the whole expansion of the seed, with a budget no expansion reaches
FullExpansion ==
    expandContextByImports(disk, seedOf, Len(seedOf) + Cardinality(FilePaths) + 1)

\* C24: items are processed first in, first out: a file discovered from an item
\* dequeued earlier precedes in out every file discovered from an item dequeued
\* later, and with a budget that cuts the expansion short the result is the
\* beginning of the whole breadth-first expansion.
C24_BreadthFirstOrder ==
    ctxPc = "done" =>
        LET seed      == seedOf
            found     == (Len(seed) + 1)..Len(out)
            targets   == [k \in 1..Len(out) |-> TargetsOf(k)]
            importers == [j \in found |-> { k \in 1..Len(out) : out[j].path \in targets[k] }]
            first     == [j \in found |->
                            CHOOSE k \in importers[j] : \A m \in importers[j] : k <= m]
            full      == FullExpansion
        IN /\ \A j \in found :
                 /\ importers[j] # {}
                 /\ first[j] < j
                 /\ \A i \in found : i < j => first[i] <= first[j]
           /\ IsPrefix(out, full)
           /\ Len(out) = IF Len(seed) >= maxFiles THEN Len(seed)
                         ELSE Min(maxFiles, Len(full))

\* two seed files that each import one file, and a budget that leaves room
\* for the first discovery only
C24_Witness ==
    /\ ctxPc = "done"
    /\ Len(seedOf) = 2
    /\ Len(out) = 3
    /\ Len(FullExpansion) = 4
    /\ DiscovererOf(3) = 1
    /\ \E t \in Range(parseRelativeImports(out[2].content)) :
          resolveImportPath(disk, out[2].path, t) = FullExpansion[4].path

(***************************************************************************)
(* Claims about the heuristic scanner, under SpecScan.                     *)
(***************************************************************************)
IsHunkHeader(line) == StartsWith(line, <<"@@">>) /\ PlusDigitsAt(line) # {}

HunkStart(line) == DigitsValue[FirstPlusDigits(line)]

IsAddedLine(line) == StartsWith(line, <<"+">>) /\ ~StartsWith(line, <<"+", "+", "+">>)

\* the line numbers heuristicScan gave the diff line at index i
AttributedTo(i) == { scanAttr[k].line : k \in { k \in 1..Len(scanAttr) : scanAttr[k].index = i } }

\* C5: when a hunk header with new-file start n is immediately followed by k
\* added lines, heuristicScan gives them the line numbers n, n+1, ..., n+k-1.
C5_DiffLineAccounting ==
    scanPc = "done" =>
        \A h \in 1..Len(diff) :
            IsHunkHeader(diff[h]) =>
                \A j \in 1..(Len(diff) - h) :
                    (\A i \in 1..j : IsAddedLine(diff[h + i])) =>
                        AttributedTo(h + j) = { HunkStart(diff[h]) + j - 1 }

\* the hunk header the diff line at index i stands under
HunkOf(i) == CHOOSE h \in 1..(i - 1) :
                 /\ IsHunkHeader(diff[h])
                 /\ \A k \in (h + 1)..(i - 1) : ~IsHunkHeader(diff[k])

\* the line of the new file the diff line at index i is: the hunk's new-file
\* start plus the context and added lines of the hunk before it
NewFileLine(i) ==
    HunkStart(diff[HunkOf(i)])
        + Cardinality({ k \in (HunkOf(i) + 1)..(i - 1) :
                          diff[k] = ContextLine \/ IsAddedLine(diff[k]) })

\* C20: on a diff as git writes it with --unified=3, the line number
\* heuristicScan reports for an added line is that line's number in the new
\* version of the file.
C20_LineAccuracy ==
    scanPc = "done" =>
        \A i \in 1..Len(diff) :
            IsAddedLine(diff[i]) => AttributedTo(i) = { NewFileLine(i) }

\* context lines advance the position and removed lines do not: two added
\* lines of a hunk are reported as far apart as they are in the new file
ContextLinesAdvance ==
    scanPc = "done" =>
        \A i, j \in 1..Len(diff) :
            (i < j /\ IsAddedLine(diff[i]) /\ IsAddedLine(diff[j])) =>
                \A a \in AttributedTo(i), b \in AttributedTo(j) :
                    b - a = NewFileLine(j) - NewFileLine(i)

\* removed lines leave the reported position where it is
RemovedLinesDoNotAdvance ==
    scanPc = "done" =>
        \A i, j \in 1..Len(diff) :
            (/\ i < j /\ IsAddedLine(diff[i]) /\ IsAddedLine(diff[j])
             /\ \A k \in (i + 1)..(j - 1) : diff[k] # ContextLine) =>
                \A a \in AttributedTo(i), b \in AttributedTo(j) :
                    b - a = NewFileLine(j) - NewFileLine(i)

RECURSIVE LinesOfFiles(_, _)
\* file by file and line by line: the path and the line number of every line
\* of every readable file
LinesOfFiles(fs, i) ==
    IF i > Len(fs) THEN <<>>
    ELSE (IF fs[i].readable
          THEN [k \in 1..Len(fs[i].content) |-> [file |-> <<fs[i].path>>, line |-> k]]
          ELSE <<>>)
         \o LinesOfFiles(fs, i + 1)

\* the path and line number heuristicScan gave the lines it scanned, in order
ScannedLines == [k \in 1..Len(scanAttr) |-> [file |-> scanAttr[k].file, line |-> scanAttr[k].line]]

\* C21: on the diff buildSyntheticDiff builds, heuristicScan scans every line
\* of every readable file exactly once and gives the k-th line of a file the
\* line number k and the file's path.
C21_WholeFileAccounting ==
    scanPc = "done" =>
        /\ ScannedLines = LinesOfFiles(projectFiles, 1)
        /\ \A j, k \in 1..Len(scanAttr) : j < k => scanAttr[j].index < scanAttr[k].index

\* the same for files none of whose lines begins with "++"
WholeFileAccountingWithoutPlusPlus ==
    (/\ scanPc = "done"
     /\ \A i \in 1..Len(projectFiles) :
           \A k \in 1..Len(projectFiles[i].content) :
               projectFiles[i].content[k] # IncrementSource) =>
        ScannedLines = LinesOfFiles(projectFiles, 1)

RECURSIVE ProblemsInOrder(_)
\* the problems of the rules that match the added lines of diff from index i on:
\* line after line, and for one line rule after rule
ProblemsInOrder(i) ==
    IF i > Len(diff) THEN <<>>
    ELSE (IF IsAddedLine(diff[i])
          THEN SelectSeq(RuleProblem,
                         LAMBDA pr : \E k \in 1..Len(RuleProblem) :
                                        RuleProblem[k] = pr /\ RuleFires(k, Tail(diff[i])))
          ELSE <<>>)
         \o ProblemsInOrder(i + 1)

\* C17: runs of heuristicScan on the same diff within one process return the
\* same issue list, and the issues stand in the order of their added lines in
\* the diff and, for one line, in the order of the rules.
C17_ScanDeterminism ==
    /\ scanRuns >= 2 => scanResults = scanPrev
    /\ scanRuns >= 1 =>
          [i \in 1..Len(scanResults) |-> scanResults[i].problem] = ProblemsInOrder(1)

\* a second run on a diff in which two added lines have issues, one of them two
C17_Witness ==
    /\ scanRuns = 2
    /\ \E i \in 1..(Len(scanResults) - 2) :
          /\ scanResults[i].line # scanResults[i + 1].line
          /\ scanResults[i + 1].line = scanResults[i + 2].line
          /\ scanResults[i + 1].problem # scanResults[i + 2].problem

(***************************************************************************)
(* Claims about analyzeWithGroq, under SpecGroq.                           *)
(***************************************************************************)
\* the request completed with an OK response and parsing yielded an issue
RemoteProduced ==
    /\ reply.kind = "response"
    /\ ResponseOk(reply)
    /\ reply.body = "content"
    /\ Len(safeParseIssues(reply.content)) >= 1

\* a field of a returned issue, Undefined where the object has no such property
FieldOf(issue, field) == IF field \in DOMAIN issue THEN issue[field] ELSE Undefined

\* the items of the answer that have a non-empty file, problem and fix
CompleteItems(arr) ==
    SelectSeq(arr, LAMBDA it : /\ "isNull" \notin DOMAIN it
                               /\ Truthy(StringOrEmpty(it.file))
                               /\ Truthy(StringOrEmpty(it.problem))
                               /\ Truthy(StringOrEmpty(it.fix)))

\* C28: every item of the remote answer with a non-empty file, problem and fix
\* is returned by analyzeWithGroq with its line, snippet and fixedCode.
C28_RemoteFixDataPreserved ==
    (groqPc = "returned" /\ RemoteProduced) =>
        LET sent == CompleteItems(reply.content.items) IN
        /\ Len(groqResult) = Len(sent)
        /\ \A i \in 1..Len(sent) :
              /\ FieldOf(groqResult[i], "line") = sent[i].line
              /\ FieldOf(groqResult[i], "snippet") = sent[i].snippet
              /\ FieldOf(groqResult[i], "fixedCode") = sent[i].fixedCode

\* C28 for the four fields normalizeIssues copies: the complete items come back
\* in order with their file, problem and fix, and nothing else comes back
RemoteItemsReturnedInOrder ==
    (groqPc = "returned" /\ RemoteProduced) =>
        LET sent == CompleteItems(reply.content.items) IN
        /\ Len(groqResult) = Len(sent)
        /\ \A i \in 1..Len(sent) :
              /\ groqResult[i].file = sent[i].file
              /\ groqResult[i].problem = sent[i].problem
              /\ groqResult[i].fix = sent[i].fix

\* C6: with an API key, analyzeWithGroq never raises; it returns the remote
\* analyzer's parsed issues exactly when the response was OK and parsing gave
\* at least one issue, and the result of heuristicScan on the diff otherwise;
\* fetch is called once, and heuristicScan does not run when the remote
\* analyzer produced an issue.
C6_FallbackRule ==
    /\ (apiKey => groqPc # "threw")
    /\ requests <= 1
    /\ (groqPc = "returned" =>
          /\ requests = 1
          /\ IF RemoteProduced
             THEN groqResult = safeParseIssues(reply.content) /\ heuristicRuns = 0
             ELSE groqResult = heuristicScan(diff).results /\ heuristicRuns = 1)

\* both outcomes on one diff: here the fallback ran after an OK answer without
\* issues, on a diff in which the heuristic scan finds one
C6_Witness ==
    /\ groqPc = "returned"
    /\ reply.kind = "response" /\ ResponseOk(reply) /\ reply.body = "content"
    /\ reply.content.form = "array" /\ Len(reply.content.items) >= 1
    /\ ~RemoteProduced
    /\ Len(groqResult) >= 1

\* C19: without GROQ_API_KEY both analyzeWithGroq and generateFixDiff raise
\* the missing-credential error, no request is issued and the local scan does
\* not run in its place; a request is only ever issued with the key set, and
\* the missing-credential error is raised only without it.
C19_MissingCredential ==
    /\ (~apiKey /\ groqPc \notin {"idle", "ready", "fixReady"}) =>
          /\ groqPc \in {"threw", "fixThrew"}
          /\ groqError = MissingKeyError
          /\ requests = 0
          /\ heuristicRuns = 0
          /\ groqResult = <<>>
          /\ reply = NoReply
    /\ (requests > 0 \/ reply # NoReply) => apiKey
    /\ groqError = MissingKeyError => ~apiKey

\* generateFixDiff has raised the missing-credential error on a diff in which
\* the local scan would have found an issue
C19_Witness ==
    /\ ~apiKey
    /\ groqPc = "fixThrew"
    /\ groqError = MissingKeyError
    /\ requests = 0
    /\ Len(heuristicScan(diff).results) >= 1

(***************************************************************************)
(* Claims about the safe patterns, under SpecStrict, SpecConsole, SpecTrim. *)
(***************************************************************************)
\* C7: the strict-equality rewrite applied to its own result changes nothing.
C7_StrictIdempotent ==
    (txName = "strict-equality" /\ txPasses = 2) => txCode = txPrev

\* C8: remove-console applied to its own result changes nothing.
C8_ConsoleIdempotent ==
    (txName = "remove-console" /\ txPasses = 2) => txCode = txPrev

\* a space or tab stands at the end of a line
HasTrailingBlank(s) ==
    \E i \in 1..Len(s) : IsBlank(s[i]) /\ (i = Len(s) \/ s[i + 1] = "\n")

\* C9: trim-whitespace applied to its own result changes nothing, and after
\* one application no line ends with a space or a tab.
C9_TrimIdempotent ==
    /\ (txName = "trim-whitespace" /\ txPasses = 2) => txCode = txPrev
    /\ (txName = "trim-whitespace" /\ txPasses >= 1) => ~HasTrailingBlank(txCode)

\* two applications, of which the first removed blanks from two lines
C9_Witness ==
    /\ txName = "trim-whitespace" /\ txPasses = 2
    /\ HasTrailingBlank(txInput)
    /\ Len(txInput) - Len(txCode) >= 2
    /\ \E i \in 1..Len(txCode) : txCode[i] = "\n"

(***************************************************************************)
(* Claims about applyAutoFixes, under SpecFix.                             *)
(***************************************************************************)
\* C10: after applyAutoFixes(issues, {dryRun: false}) has run, running it again
\* with the same issue list changes no file and returns no AutoFixResult.
C10_ReapplyIsNoOp ==
    (fixCalls = 2 /\ ~fixOptions.dryRun) =>
        (srcFiles = srcBefore /\ fixResults = <<>>)

\* the lower-cased problem texts one of the six safe patterns matches
AllowList == UNION { safePatterns[k] : k \in 1..Len(safePatterns) }

AllowListed(issue) == toLowerCase(issue.problem) \in AllowList

\* the elements of a sequence
Elems(seq) == { seq[i] : i \in 1..Len(seq) }

\* the issues of the group of file spelling f that are retained
Retained(f) == SelectSeq(groupOf(fixIssues, f), AllowListed)

RECURSIVE ContentAfter(_, _)
\* the text after the issues of list were applied to content one after another
ContentAfter(content, list) ==
    IF list = <<>> THEN content
    ELSE ContentAfter(applyIssueFix(content, Head(list)), Tail(list))

RECURSIVE ChangeCount(_, _)
\* how many issues of list change the text they are applied to, applied in order
ChangeCount(content, list) ==
    IF list = <<>> THEN 0
    ELSE LET fixed == applyIssueFix(content, Head(list)) IN
         (IF fixed # content THEN 1 ELSE 0) + ChangeCount(fixed, Tail(list))

\* the spellings whose group is processed before the group of f and name f's file
EarlierAliases(f) ==
    { g \in Elems(groupKeys(fixIssues)) :
        /\ g # f /\ fullPathOf(g) = fullPathOf(f)
        /\ \E i, j \in 1..Len(groupKeys(fixIssues)) :
              i < j /\ groupKeys(fixIssues)[i] = g /\ groupKeys(fixIssues)[j] = f }

\* the text the first call reads when it comes to the group of f
ContentRead(f) ==
    IF fixOptions.dryRun \/ EarlierAliases(f) = {}
    THEN srcBefore[fullPathOf(f)]
    ELSE LET g == CHOOSE g \in EarlierAliases(f) : TRUE
         IN ContentAfter(srcBefore[fullPathOf(f)], Retained(g))

RECURSIVE ContentBefore(_, _)
\* the content of the source file path on disk just before the k-th write of the call
ContentBefore(path, k) ==
    IF k <= 1 THEN srcBefore[path]
    ELSE IF ~writes[k - 1].backup /\ writes[k - 1].path = path
         THEN writes[k - 1].content
         ELSE ContentBefore(path, k - 1)

\* snippet replaced by fixedCode at its first occurrence, fixedCode taken as it stands
replaceLiterally(content, snippet, fixedCode) ==
    IF OccurrencesOf(content, snippet) = {} THEN content
    ELSE LET i == CHOOSE i \in OccurrencesOf(content, snippet) :
                      \A k \in OccurrencesOf(content, snippet) : i <= k
         IN SubSeq(content, 1, i - 1) \o fixedCode
            \o SubSeq(content, i + Len(snippet), Len(content))

\* a call with one issue, retained and carrying snippet and fixedCode, for f.ts
SnippetCall ==
    /\ fixCalls = 1
    /\ ~fixOptions.dryRun
    /\ Len(fixIssues) = 1
    /\ canAutoFix(fixIssues[1])
    /\ fixIssues[1].snippet # NoText /\ fixIssues[1].fixedCode # NoText
    /\ fullPathOf(fixIssues[1].file) = "f.ts"

\* C25: for an auto-fixable issue with snippet and fixedCode, the content
\* written is the content read with the first occurrence of snippet replaced
\* by fixedCode as it stands, and no pattern runs; when snippet does not
\* occur, the file is unchanged and no fix is counted.
C25_SnippetPrecedence ==
    SnippetCall =>
        /\ srcFiles["f.ts"] =
              replaceLiterally(srcBefore["f.ts"], fixIssues[1].snippet, fixIssues[1].fixedCode)
        /\ OccurrencesOf(srcBefore["f.ts"], fixIssues[1].snippet) = {} =>
              (fixResults = <<>> /\ writes = <<>>)

\* the part of C25 that holds: the pair is used in place of the pattern rewrite,
\* and an absent snippet changes and counts nothing
SnippetInPlaceOfPattern ==
    SnippetCall =>
        /\ srcFiles["f.ts"] =
              replaceFirst(srcBefore["f.ts"], fixIssues[1].snippet, fixIssues[1].fixedCode)
        /\ OccurrencesOf(srcBefore["f.ts"], fixIssues[1].snippet) = {} =>
              (fixResults = <<>> /\ writes = <<>>)

\* the entry of safePatterns that stands for the category of a safe pattern
CategoryOf(kind) ==
    CASE kind = "var-to-const"    -> 1
      [] kind = "remove-console"  -> 2
      [] kind = "trim-whitespace" -> 3
      [] kind = "strict-equality" -> 5

\* C26: for an issue without a snippet/fixedCode pair, the safe pattern with
\* which applyIssueFix rewrites the text is of a category whose canAutoFix
\* pattern matched the same problem text.
C26_DoubleGating ==
    \A k \in 1..Len(fixApplied) :
        (fixApplied[k].kind \notin {"snippet", "none"} /\ fixApplied[k].changed) =>
            fixApplied[k].problem \in safePatterns[CategoryOf(fixApplied[k].kind)]

\* C27: applyAutoFixes never runs add-semicolons or quotes-single, also not
\* for an issue canAutoFix accepted for its "missing semicolon" text: such an
\* issue alone changes nothing.
C27_UnsafeTransformsUnreachable ==
    /\ \A k \in 1..Len(fixApplied) :
          fixApplied[k].kind \notin {"add-semicolons", "quotes-single"}
    /\ (fixCalls = 1 /\ \A i \in 1..Len(fixIssues) :
                          fixIssues[i].problem = "Missing semicolon") =>
          (srcFiles = srcBefore /\ writes = <<>> /\ fixResults = <<>>)

\* applyIssueFix has been called for an accepted "missing semicolon" issue on
\* a text add-semicolons would change
C27_Witness ==
    /\ fixCalls = 1
    /\ addSemicolons(srcBefore["f.ts"]) # srcBefore["f.ts"]
    /\ \E k \in 1..Len(fixApplied) :
          fixApplied[k].problem = "missing semicolon" /\ fixApplied[k].kind = "none"
    /\ \E i \in 1..Len(fixIssues) :
          fixIssues[i].problem = "Missing semicolon" /\ canAutoFix(fixIssues[i])

\* C29: runAnalyze writes a source file or a .prefl-backup file only when
\* autoFix is set, dryRun is not set and the user confirmed.
C29_MutatesOnlyWhenConfirmed ==
    (\/ writes # <<>>
     \/ srcFiles # srcBefore
     \/ backups # [f \in FixFiles |-> Missing]) =>
        (runOptions.autoFix /\ ~runOptions.dryRun /\ runConfirm = "yes")

\* C29 for the source files alone, and for a declined prompt: a source file
\* is written only on a confirmed non-dry auto-fix, and after the user
\* declines applyAutoFixes is not called
SourceWrittenOnlyWhenConfirmed ==
    /\ ((srcFiles # srcBefore \/ \E k \in 1..Len(writes) : ~writes[k].backup) =>
          (runOptions.autoFix /\ ~runOptions.dryRun /\ runConfirm = "yes"))
    /\ (runConfirm = "no" => (fixCalls = 0 /\ writes = <<>>))

\* C11: canAutoFix(issue) is true exactly when the lower-cased problem matches
\* one of the six safe patterns, and applyAutoFixes writes no file, no backup
\* and reports no result on behalf of an issue outside the allow-list, even one
\* that carries snippet and fixedCode: every write is for a file with an
\* allow-listed issue, the text written is the text read with only the
\* allow-listed issues of one group applied, and results list only such issues.
C11_AllowListGate ==
    /\ \A issue \in Elems(fixIssues) : canAutoFix(issue) <=> AllowListed(issue)
    /\ fixCalls = 1 =>
          /\ \A r \in Elems(fixResults) :
                /\ r.issues # <<>>
                /\ \A issue \in Elems(r.issues) : AllowListed(issue)
          /\ \A k \in 1..Len(writes) :
                \E f \in Elems(groupKeys(fixIssues)) :
                    /\ fullPathOf(f) = writes[k].path
                    /\ Retained(f) # <<>>
                    /\ ~writes[k].backup =>
                          writes[k].content =
                              ContentAfter(ContentBefore(writes[k].path, k), Retained(f))
          /\ \A f \in FixFiles :
                srcFiles[f] # srcBefore[f] \/ backups[f] # Missing =>
                    \E k \in 1..Len(writes) : writes[k].path = f

\* a call whose list holds an issue outside the allow-list with a snippet that
\* occurs in the file and a fixedCode, and an allow-listed issue that was applied
C11_Witness ==
    /\ fixCalls = 1 /\ ~fixOptions.dryRun
    /\ \E issue \in Elems(fixIssues) :
          /\ ~AllowListed(issue)
          /\ issue.snippet # <<>> /\ issue.fixedCode # <<>>
          /\ OccurrencesOf(srcBefore[fullPathOf(issue.file)], issue.snippet) # {}
    /\ \E r \in Elems(fixResults) : r.file = "f.ts" /\ srcFiles["f.ts"] # srcBefore["f.ts"]

\* what the call would have returned as a real run: dryRun false
NonDryRun ==
    applyAutoFixes(fixIssues, [fixOptions EXCEPT !.dryRun = FALSE], srcBefore,
                   [f \in FixFiles |-> Missing])

\* C12: after applyAutoFixes with dryRun true every source file on disk has the
\* content it had before the call, and the call returned the AutoFixResult list
\* a run with dryRun false on the same inputs would return.
C12_DryRunPreview ==
    (fixCalls >= 1 /\ fixOptions.dryRun /\ ~fixThrew) =>
        /\ srcFiles = srcBefore
        /\ fixResults = NonDryRun.results

\* C12, its first half: a dry run leaves every source file as it was
C12_DryRunWritesNoSource ==
    (fixCalls >= 1 /\ fixOptions.dryRun) =>
        /\ srcFiles = srcBefore
        /\ \A w \in Elems(writes) : w.backup

\* each write of the call taken alone: a source file is written right after its
\* backup, which holds the content the file had at that moment, and a backup is
\* written only for a file a fix changed
BackupBeforeEachWrite ==
    (fixCalls >= 1 /\ fixOptions.backup) =>
        /\ \A k \in 1..Len(writes) :
              ~writes[k].backup =>
                  /\ k > 1
                  /\ writes[k - 1].backup
                  /\ writes[k - 1].path = writes[k].path
                  /\ writes[k - 1].content = ContentBefore(writes[k].path, k)
        /\ \A k \in 1..Len(writes) :
              writes[k].backup =>
                  /\ writes[k].content = ContentBefore(writes[k].path, k)
                  /\ ~fixOptions.dryRun =>
                        /\ k < Len(writes)
                        /\ ~writes[k + 1].backup
                        /\ writes[k + 1].path = writes[k].path
                        /\ writes[k + 1].content # writes[k].content
                  /\ ~fixThrew => \E r \in Elems(fixResults) :
                                      fullPathOf(r.file) = writes[k].path

\* C13: when applyAutoFixes with backup true changes a file, <path>.prefl-backup
\* is written before the new content is and holds the content the file had when
\* the call read it, so that the file can be rolled back; no backup is written
\* for a file no fix changed.
C13_BackupEnablesRollback ==
    /\ BackupBeforeEachWrite
    /\ (fixCalls = 1 /\ fixOptions.backup) =>
          \A f \in FixFiles :
              /\ srcFiles[f] # srcBefore[f] => backups[f] = srcBefore[f]
              /\ backups[f] # Missing => backups[f] = srcBefore[f]

C15_FaultIsolation ==
    fixCalls = 1 =>
        /\ ~fixThrew
        /\ \A f \in Elems(groupKeys(fixIssues)) :
              (/\ srcBefore[fullPathOf(f)] \notin {Missing, Unreadable}
               /\ ChangeCount(ContentRead(f), Retained(f)) >= 1)
                  => /\ \E r \in Elems(fixResults) : r.file = f
                     /\ ~fixOptions.dryRun => srcFiles[fullPathOf(f)] # srcBefore[fullPathOf(f)]

\* C15, for missing files only: the call returns and the other files are fixed
MissingFileIsSkipped ==
    (fixCalls = 1 /\ \A f \in FixFiles : srcBefore[f] # Unreadable) =>
        /\ ~fixThrew
        /\ \A f \in Elems(groupKeys(fixIssues)) :
              (/\ srcBefore[fullPathOf(f)] # Missing
               /\ ChangeCount(ContentRead(f), Retained(f)) >= 1)
                  => \E r \in Elems(fixResults) : r.file = f

(***************************************************************************)
(* Claims about commit gating, under SpecGate.                             *)
(***************************************************************************)
\* some returned issue has a severity listed in review.blockSeverities
BlockingIssue ==
    \E i \in 1..Len(gateIssues) :
        gateIssues[i] \in (IF blockSeverities.present THEN blockSeverities.entries
                          ELSE {"critical"})

\* C16: a completed runAnalyze leaves exit code 1 iff an issue the analysis
\* returned has a severity listed in review.blockSeverities (default
\* ["critical"]); with blockSeverities [] or no such issue the exit code stays 0;
\* the pre-commit hook blocks the commit exactly when analyze exits non-zero.
C16_CommitGating ==
    /\ gatePc \in {"exited", "hooked"} =>
          /\ exitCode = 1 <=> BlockingIssue
          /\ exitCode \in {0, 1}
          /\ blockSeverities = Setting({}) => exitCode = 0
    /\ gatePc \in {"hooked", "hooked-crash"} =>
          /\ commit = "blocked" <=> exitCode # 0
          /\ commit = "allowed" <=> exitCode = 0

\* a run the hook blocked for a warning that review.showSeverities hides, with
\* blockSeverities naming warning
C16_Witness ==
    /\ gatePc = "hooked" /\ commit = "blocked"
    /\ blockSeverities = Setting({"warning"})
    /\ showSeverities = Setting({})
    /\ \E i \in 1..Len(gateIssues) : gateIssues[i] = "warning"

====
